---- MODULE Spec2Model ----
(***************************************************************************)
(* Photo ingestion and enrichment pipeline of the upload page:             *)
(*   src/src/lib/exif-utils.ts      metadata extraction, DMS conversion    *)
(*   src/unnamed/part_000           weather / geocoding lookups, location  *)
(*                                  parser (lib/external-apis)             *)
(*   src/src/app/dashboard/page.tsx UploadPage: onDrop, handleSubmit,      *)
(*                                  removeFile                             *)
(*                                                                         *)
(* JavaScript strings are sequences of one-character strings, so that      *)
(* split, parseInt and parseFloat are computed as the engine computes      *)
(* them.  JavaScript values are tagged records (JsVal).  Numbers produced  *)
(* by parseFloat are kept in hundredths; a decimal coordinate is kept in   *)
(* units of 1/360000 degree, so D + M/60 + S/3600 is exact.                *)
(***************************************************************************)
EXTENDS Integers, Sequences, FiniteSets, TLC

(***************************************************************************)
(* JavaScript values                                                       *)
(***************************************************************************)
Undefined == [k |-> "undefined", n |-> 0, s |-> <<>>]
Null      == [k |-> "null",      n |-> 0, s |-> <<>>]
NaN       == [k |-> "nan",       n |-> 0, s |-> <<>>]
Num(x)    == [k |-> "num",       n |-> x, s |-> <<>>]
Str(x)    == [k |-> "str",       n |-> 0, s |-> x]

\* ToBoolean of a value: undefined, null, NaN, 0 and "" are falsy.
Truthy(v) ==
    CASE v.k = "undefined" -> FALSE
      [] v.k = "null"      -> FALSE
      [] v.k = "nan"       -> FALSE
      [] v.k = "num"       -> v.n # 0
      [] v.k = "str"       -> v.s # <<>>
      [] OTHER             -> TRUE

(***************************************************************************)
(* Characters                                                              *)
(***************************************************************************)
Digits == {"0", "1", "2", "3", "4", "5", "6", "7", "8", "9"}

Letters ==
    {"a", "b", "c", "d", "e", "f", "g", "h", "i", "j", "k", "l", "m",
     "n", "o", "p", "q", "r", "s", "t", "u", "v", "w", "x", "y", "z",
     "A", "B", "C", "D", "E", "F", "G", "H", "I", "J", "K", "L", "M",
     "N", "O", "P", "Q", "R", "S", "T", "U", "V", "W", "X", "Y", "Z"}

WhiteSpace == {" "}

DigitVal(c) ==
    CASE c = "0" -> 0 [] c = "1" -> 1 [] c = "2" -> 2 [] c = "3" -> 3
      [] c = "4" -> 4 [] c = "5" -> 5 [] c = "6" -> 6 [] c = "7" -> 7
      [] c = "8" -> 8 [] c = "9" -> 9

\* A character the class [\d\w\.] of the DMS separator pattern accepts.
IsTokenChar(c) == c \in Digits \cup Letters \cup {"_", "."}

Tail2(s, from) == IF from > Len(s) THEN <<>> ELSE SubSeq(s, from, Len(s))

\* Index of the first element of s satisfying the set membership, Len(s)+1 if none.
FirstIn(s, set) ==
    IF \E p \in 1..Len(s) : s[p] \in set
    THEN CHOOSE p \in 1..Len(s) : s[p] \in set /\ \A q \in 1..(p - 1) : s[q] \notin set
    ELSE Len(s) + 1

FirstNotIn(s, set) ==
    IF \E p \in 1..Len(s) : s[p] \notin set
    THEN CHOOSE p \in 1..Len(s) : s[p] \notin set /\ \A q \in 1..(p - 1) : s[q] \in set
    ELSE Len(s) + 1

(***************************************************************************)
(* String.prototype.split                                                  *)
(***************************************************************************)
RECURSIVE SplitChar(_, _)
\* s.split(c) for a one-character separator: every occurrence separates.
SplitChar(s, c) ==
    LET p == FirstIn(s, {c})
    IN  IF p > Len(s) THEN <<s>>
        ELSE <<SubSeq(s, 1, p - 1)>> \o SplitChar(Tail2(s, p + 1), c)

RECURSIVE SplitDMS(_)
\* dms.split(/[^\d\w\.]+/): every maximal run of non-token characters separates.
SplitDMS(s) ==
    LET seps == {c \in {s[p] : p \in 1..Len(s)} : ~IsTokenChar(c)}
        p == FirstIn(s, seps)
        rest == Tail2(s, p)
        q == FirstNotIn(rest, seps)
    IN  IF p > Len(s) THEN <<s>>
        ELSE <<SubSeq(s, 1, p - 1)>> \o SplitDMS(Tail2(rest, q))

\* parts[i] of a JavaScript array: undefined beyond its length.
At(parts, i) == IF i <= Len(parts) THEN Str(parts[i]) ELSE Undefined

(***************************************************************************)
(* parseInt, parseFloat                                                    *)
(***************************************************************************)
RECURSIVE DigitsValue(_)
DigitsValue(ds) ==
    IF ds = <<>> THEN 0
    ELSE 10 * DigitsValue(SubSeq(ds, 1, Len(ds) - 1)) + DigitVal(ds[Len(ds)])

\* The string after leading white space and an optional sign, with the sign.
SignOf(t) == IF t # <<>> /\ t[1] = "-" THEN -1 ELSE 1
Unsigned(t) == IF t # <<>> /\ t[1] \in {"-", "+"} THEN Tail2(t, 2) ELSE t
Trimmed(s) == Tail2(s, FirstNotIn(s, WhiteSpace))

\* parseInt(v): the longest prefix of decimal digits, NaN when there is none.
\* A non-string argument is converted to a string first (undefined -> "undefined").
ParseInt(v) ==
    IF v.k # "str" THEN NaN
    ELSE LET t == Trimmed(v.s)
             u == Unsigned(t)
             n == FirstNotIn(u, Digits) - 1
         IN  IF n = 0 THEN NaN ELSE Num(SignOf(t) * DigitsValue(SubSeq(u, 1, n)))

\* parseFloat(v) in hundredths: digits, an optional fraction of which two
\* digits are kept; NaN when no digit starts the number.
ParseFloat(v) ==
    IF v.k # "str" THEN NaN
    ELSE LET t == Trimmed(v.s)
             u == Unsigned(t)
             n == FirstNotIn(u, Digits) - 1
             afterInt == Tail2(u, n + 1)
             hasDot == afterInt # <<>> /\ afterInt[1] = "."
             frac == IF hasDot THEN Tail2(afterInt, 2) ELSE <<>>
             m == FirstNotIn(frac, Digits) - 1
             f1 == IF m >= 1 THEN DigitVal(frac[1]) ELSE 0
             f2 == IF m >= 2 THEN DigitVal(frac[2]) ELSE 0
         IN  IF n = 0 /\ m = 0 THEN NaN
             ELSE Num(SignOf(t) * (100 * DigitsValue(SubSeq(u, 1, n)) + 10 * f1 + f2))

(***************************************************************************)
(* lib/exif-utils.ts                                                       *)
(***************************************************************************)
\* s.includes(sub)
Includes(s, sub) ==
    \E p \in 1..(Len(s) - Len(sub) + 1) : SubSeq(s, p, p + Len(sub) - 1) = sub

\* A non-number operand of the sum makes the result NaN.
AnyNaN(vals) == \E v \in vals : v.k # "num"

ArcSecondsPerDegree == 3600
ArcMinutesPerDegree == 60

\* convertDMSToDecimal(dms): degrees + minutes / 60 + seconds / 3600, negated
\* for S and W, in units of 1/360000 degree.  split on a non-string throws and
\* the catch returns null; a token that does not parse makes the sum NaN,
\* which is returned as it is.
convertDMSToDecimal(dms) ==
    IF dms.k # "str" THEN Null
    ELSE LET parts == SplitDMS(dms.s)
             degrees == ParseFloat(At(parts, 1))
             minutes == ParseFloat(At(parts, 2))
             seconds == ParseFloat(At(parts, 3))
             direction == At(parts, 4)
             sum == degrees.n * ArcSecondsPerDegree
                      + minutes.n * (ArcSecondsPerDegree \div ArcMinutesPerDegree) + seconds.n
         IN  IF AnyNaN({degrees, minutes, seconds}) THEN NaN
             ELSE IF direction \in {Str(<<"S">>), Str(<<"W">>)} THEN Num(-sum) ELSE Num(sum)

\* The tag block of a file as ExifReader.load decodes it: decodes is FALSE when
\* load throws; a tag is Undefined when absent, else its description (value
\* for the two dimensions).
TagNames ==
    {"DateTimeOriginal", "DateTime", "GPSLatitude", "GPSLongitude",
     "Make", "Model", "ImageWidth", "ImageHeight"}

\* exifData as extractExifData builds it; isNull stands for the null result.
EmptyExif ==
    [isNull |-> FALSE,
     dateTimeOriginal |-> Undefined, dateTime |-> Undefined,
     hasGps |-> FALSE, latitude |-> Undefined, longitude |-> Undefined,
     latitudeDecimal |-> Undefined, longitudeDecimal |-> Undefined,
     make |-> Undefined, model |-> Undefined,
     hasDimensions |-> FALSE, width |-> Undefined, height |-> Undefined]

NullExif == [EmptyExif EXCEPT !.isNull = TRUE]

Present(tag) == tag.k # "undefined"

\* extractExifData with the two date tags tested in the other order.
extractExifDataPreferDateTime(file) ==
    IF ~file.decodes THEN NullExif
    ELSE LET tags == file.tags
             hasGps == Present(tags.GPSLatitude) /\ Present(tags.GPSLongitude)
             isDms == hasGps /\ tags.GPSLatitude.k = "str"
                        /\ Includes(tags.GPSLatitude.s, <<"d", "e", "g">>)
             hasDim == Present(tags.ImageWidth) /\ Present(tags.ImageHeight)
         IN  [isNull |-> FALSE,
              dateTimeOriginal |->
                  IF ~Present(tags.DateTime) /\ Present(tags.DateTimeOriginal)
                  THEN tags.DateTimeOriginal ELSE Undefined,
              dateTime |->
                  IF Present(tags.DateTime) THEN tags.DateTime ELSE Undefined,
              hasGps |-> hasGps,
              latitude |-> IF hasGps THEN tags.GPSLatitude ELSE Undefined,
              longitude |-> IF hasGps THEN tags.GPSLongitude ELSE Undefined,
              latitudeDecimal |->
                  IF isDms THEN convertDMSToDecimal(tags.GPSLatitude) ELSE Undefined,
              longitudeDecimal |->
                  IF isDms THEN convertDMSToDecimal(tags.GPSLongitude) ELSE Undefined,
              make |-> tags.Make,
              model |-> tags.Model,
              hasDimensions |-> hasDim,
              width |-> IF hasDim THEN tags.ImageWidth ELSE Undefined,
              height |-> IF hasDim THEN tags.ImageHeight ELSE Undefined]

extractExifData(file) ==
    IF ~file.decodes THEN NullExif
    ELSE LET tags == file.tags
             hasGps == Present(tags.GPSLatitude) /\ Present(tags.GPSLongitude)
             isDms == hasGps /\ tags.GPSLatitude.k = "str"
                        /\ Includes(tags.GPSLatitude.s, <<"d", "e", "g">>)
             hasDim == Present(tags.ImageWidth) /\ Present(tags.ImageHeight)
         IN  [isNull |-> FALSE,
              dateTimeOriginal |->
                  IF Present(tags.DateTimeOriginal) THEN tags.DateTimeOriginal ELSE Undefined,
              dateTime |->
                  IF ~Present(tags.DateTimeOriginal) /\ Present(tags.DateTime)
                  THEN tags.DateTime ELSE Undefined,
              hasGps |-> hasGps,
              latitude |-> IF hasGps THEN tags.GPSLatitude ELSE Undefined,
              longitude |-> IF hasGps THEN tags.GPSLongitude ELSE Undefined,
              latitudeDecimal |->
                  IF isDms THEN convertDMSToDecimal(tags.GPSLatitude) ELSE Undefined,
              longitudeDecimal |->
                  IF isDms THEN convertDMSToDecimal(tags.GPSLongitude) ELSE Undefined,
              make |-> tags.Make,
              model |-> tags.Model,
              hasDimensions |-> hasDim,
              width |-> IF hasDim THEN tags.ImageWidth ELSE Undefined,
              height |-> IF hasDim THEN tags.ImageHeight ELSE Undefined]

\* A Date: null (no Date returned), invalid (time value NaN), or the local
\* wall-clock components the constructor was given.
NullDate == [k |-> "null", c |-> <<>>]
InvalidDate == [k |-> "invalid", c |-> <<>>]

\* new Date(year, monthIndex, day, hours, minutes, seconds): Invalid Date when
\* any argument is NaN; years 0..99 mean 1900..1999.
NewDate(year, monthIndex, day, hours, minutes, seconds) ==
    IF AnyNaN({year, monthIndex, day, hours, minutes, seconds}) THEN InvalidDate
    ELSE [k |-> "date",
          c |-> <<IF year.n \in 0..99 THEN 1900 + year.n ELSE year.n,
                  monthIndex.n, day.n, hours.n, minutes.n, seconds.n>>]

Minus1(v) == IF v.k = "num" THEN Num(v.n - 1) ELSE NaN

\* The body shared by the two branches of extractDateTime: split the string
\* into date and time, each into three components, parseInt each.  A
\* non-string value or a string without a second space-separated part throws
\* (split of undefined) and the catch returns null.
ParseExifDate(v) ==
    IF v.k # "str" THEN NullDate
    ELSE LET halves == SplitChar(v.s, " ")
             datePart == halves[1]
             timePart == At(halves, 2)
         IN  IF timePart.k = "undefined" THEN NullDate
             ELSE LET d == SplitChar(datePart, ":")
                      t == SplitChar(timePart.s, ":")
                  IN  NewDate(ParseInt(At(d, 1)), Minus1(ParseInt(At(d, 2))),
                              ParseInt(At(d, 3)), ParseInt(At(t, 1)),
                              ParseInt(At(t, 2)), ParseInt(At(t, 3)))

extractDateTime(exifData) ==
    IF Truthy(exifData.dateTimeOriginal) THEN ParseExifDate(exifData.dateTimeOriginal)
    ELSE IF Truthy(exifData.dateTime) THEN ParseExifDate(exifData.dateTime)
    ELSE NullDate

NullCoords == [k |-> "null", lat |-> Undefined, lon |-> Undefined]

\* extractGPSCoordinates testing the decimals for presence, not truthiness.
extractGPSCoordinatesIfPresent(exifData) ==
    IF exifData.hasGps /\ exifData.latitudeDecimal.k \notin {"undefined", "null"}
                       /\ exifData.longitudeDecimal.k \notin {"undefined", "null"}
    THEN [k |-> "coords", lat |-> exifData.latitudeDecimal, lon |-> exifData.longitudeDecimal]
    ELSE NullCoords

\* extractGPSCoordinates: the three operands of && are tested for truthiness,
\* so a decimal that is undefined, null, NaN or 0 gives null.
extractGPSCoordinates(exifData) ==
    IF exifData.hasGps /\ Truthy(exifData.latitudeDecimal) /\ Truthy(exifData.longitudeDecimal)
    THEN [k |-> "coords", lat |-> exifData.latitudeDecimal, lon |-> exifData.longitudeDecimal]
    ELSE NullCoords

(***************************************************************************)
(* lib/external-apis (src/unnamed/part_000)                                *)
(***************************************************************************)
\* The zone marker character (CJK ideograph U+5340), one element of a string.
ZoneMarker == "U+5340"

\* description.match(/(\d+)F/i): the leftmost run of digits that is followed
\* by F or f; the capture is the run.  Null when nothing matches.
FloorMatch(s) ==
    LET starts == {p \in 1..Len(s) :
                     /\ s[p] \in Digits
                     /\ LET q == p + FirstNotIn(Tail2(s, p), Digits) - 1
                        IN  q <= Len(s) /\ s[q] \in {"F", "f"}}
    IN  IF starts = {} THEN Null
        ELSE LET p == CHOOSE x \in starts : \A y \in starts : x <= y
                 q == p + FirstNotIn(Tail2(s, p), Digits) - 1
             IN  Str(SubSeq(s, p, q - 1))

\* description.match(/([A-Z])<U+5340>/i): the leftmost letter (either case, the
\* pattern is case-insensitive) that is followed by the zone marker.
ZoneMatch(s) ==
    LET starts == {p \in 1..(Len(s) - 1) : s[p] \in Letters /\ s[p + 1] = ZoneMarker}
    IN  IF starts = {} THEN Null
        ELSE Str(<<s[CHOOSE x \in starts : \A y \in starts : x <= y]>>)

extractLocationFromDescription(description) ==
    [floor |-> FloorMatch(description),
     zone |-> ZoneMatch(description),
     rawDescription |-> description]

(***************************************************************************)
(* Input strings                                                           *)
(***************************************************************************)
\* "2024:03:15 10:30:00"
DateValid ==
    <<"2", "0", "2", "4", ":", "0", "3", ":", "1", "5", " ", "1", "0", ":",
      "3", "0", ":", "0", "0">>

\* "2023:12:31 23:59:59"
DateOther ==
    <<"2", "0", "2", "3", ":", "1", "2", ":", "3", "1", " ", "2", "3", ":",
      "5", "9", ":", "5", "9">>

\* "    :  :     :  :  ", the blank date of a camera whose clock was never set
DateBlank ==
    <<" ", " ", " ", " ", ":", " ", " ", ":", " ", " ", " ", " ", " ", ":",
      " ", " ", ":", " ", " ">>

\* "2024:03:15", a date with no time part
DateNoTime ==
    <<"2", "0", "2", "4", ":", "0", "3", ":", "1", "5">>

\* 25deg 2' 30" N
LatTaipei ==
    <<"2", "5", "d", "e", "g", " ", "2", "'", " ", "3", "0", "\"", " ", "N">>

\* 121deg 33' 0" E
LonTaipei ==
    <<"1", "2", "1", "d", "e", "g", " ", "3", "3", "'", " ", "0", "\"", " ",
      "E">>

\* 0deg 0' 0" N
LatEquator ==
    <<"0", "d", "e", "g", " ", "0", "'", " ", "0", "\"", " ", "N">>

TypeJpeg ==
    <<"i", "m", "a", "g", "e", "/", "j", "p", "e", "g">>

TypePdf ==
    <<"a", "p", "p", "l", "i", "c", "a", "t", "i", "o", "n", "/", "p", "d",
      "f">>

NameJpg ==
    <<"s", "i", "t", "e", ".", "j", "p", "g">>

NamePdf ==
    <<"p", "l", "a", "n", ".", "p", "d", "f">>

\* "4F B" followed by the zone marker
LocationText ==
    <<"4", "F", " ", "B", ZoneMarker>>

DescriptionText ==
    <<"c", "r", "a", "c", "k">>

(***************************************************************************)
(* Message strings of the page and of lib/external-apis                    *)
(***************************************************************************)
MsgOnlyImages ==
    <<"O", "n", "l", "y", " ", "i", "m", "a", "g", "e", " ", "f", "i", "l",
      "e", "s", " ", "a", "r", "e", " ", "a", "l", "l", "o", "w", "e", "d">>

MsgSelectPhoto ==
    <<"P", "l", "e", "a", "s", "e", " ", "s", "e", "l", "e", "c", "t", " ",
      "a", "t", " ", "l", "e", "a", "s", "t", " ", "o", "n", "e", " ", "p",
      "h", "o", "t", "o", " ", "t", "o", " ", "u", "p", "l", "o", "a", "d">>

MsgSelectProject ==
    <<"P", "l", "e", "a", "s", "e", " ", "s", "e", "l", "e", "c", "t", " ",
      "a", " ", "p", "r", "o", "j", "e", "c", "t">>

MsgUploadPrefix ==
    <<"E", "r", "r", "o", "r", " ", "u", "p", "l", "o", "a", "d", "i", "n",
      "g", " ", "f", "i", "l", "e", ":", " ">>

MsgSavePrefix ==
    <<"E", "r", "r", "o", "r", " ", "s", "a", "v", "i", "n", "g", " ", "p",
      "h", "o", "t", "o", " ", "d", "a", "t", "a", ":", " ">>

MsgFallback ==
    <<"A", "n", " ", "e", "r", "r", "o", "r", " ", "o", "c", "c", "u", "r",
      "r", "e", "d", " ", "d", "u", "r", "i", "n", "g", " ", "u", "p", "l",
      "o", "a", "d">>

MsgMissingWeatherKey ==
    <<"M", "i", "s", "s", "i", "n", "g", " ", "O", "p", "e", "n", "W", "e",
      "a", "t", "h", "e", "r", " ", "A", "P", "I", " ", "k", "e", "y">>

MsgMissingMapsKey ==
    <<"M", "i", "s", "s", "i", "n", "g", " ", "G", "o", "o", "g", "l", "e",
      " ", "M", "a", "p", "s", " ", "A", "P", "I", " ", "k", "e", "y">>

\* The message of the RangeError Date.prototype.toISOString throws
MsgInvalidTime ==
    <<"I", "n", "v", "a", "l", "i", "d", " ", "t", "i", "m", "e", " ", "v",
      "a", "l", "u", "e">>

\* Messages of the storage and database provider
MsgDenied ==
    <<"d", "e", "n", "i", "e", "d">>

MsgExists ==
    <<"e", "x", "i", "s", "t", "s">>

(***************************************************************************)
(* Files                                                                   *)
(***************************************************************************)
NoTags == [t \in TagNames |-> Undefined]

\* maxSize of the dropzone, in bytes.
maxSize == 10 * 1024 * 1024

\* Date, GPS, camera: both lookups are made.
PhotoFull ==
    [name |-> NameJpg, type |-> TypeJpeg, size |-> maxSize, decodes |-> TRUE,
     tags |-> [NoTags EXCEPT !.DateTimeOriginal = Str(DateValid),
                             !.DateTime = Str(DateOther),
                             !.GPSLatitude = Str(LatTaipei),
                             !.GPSLongitude = Str(LonTaipei),
                             !.Make = Str(<<"X">>),
                             !.ImageWidth = Num(4), !.ImageHeight = Num(3)]]

\* No metadata block: ExifReader.load throws.
PhotoNoExif ==
    [name |-> NameJpg, type |-> TypeJpeg, size |-> 2048, decodes |-> FALSE, tags |-> NoTags]

\* GPS and a blank DateTimeOriginal.
PhotoBlankDate ==
    [name |-> NameJpg, type |-> TypeJpeg, size |-> 2048, decodes |-> TRUE,
     tags |-> [NoTags EXCEPT !.DateTimeOriginal = Str(DateBlank),
                             !.GPSLatitude = Str(LatTaipei),
                             !.GPSLongitude = Str(LonTaipei)]]

\* 25deg N, a latitude of degrees only
LatDegreesOnly ==
    <<"2", "5", "d", "e", "g", " ", "N">>

\* Taken on the equator.
PhotoEquator ==
    [name |-> NameJpg, type |-> TypeJpeg, size |-> 2048, decodes |-> TRUE,
     tags |-> [NoTags EXCEPT !.DateTimeOriginal = Str(DateValid),
                             !.GPSLatitude = Str(LatEquator),
                             !.GPSLongitude = Str(LonTaipei)]]

\* GPS and a DateTime without a time part.
PhotoNoTime ==
    [name |-> NameJpg, type |-> TypeJpeg, size |-> 2048, decodes |-> TRUE,
     tags |-> [NoTags EXCEPT !.DateTime = Str(DateNoTime),
                             !.GPSLatitude = Str(LatTaipei),
                             !.GPSLongitude = Str(LonTaipei)]]

\* GPS with a latitude of degrees only, which does not convert.
PhotoDegreesOnly ==
    [name |-> NameJpg, type |-> TypeJpeg, size |-> 2048, decodes |-> TRUE,
     tags |-> [NoTags EXCEPT !.DateTimeOriginal = Str(DateValid),
                             !.GPSLatitude = Str(LatDegreesOnly),
                             !.GPSLongitude = Str(LonTaipei)]]

Document ==
    [name |-> NamePdf, type |-> TypePdf, size |-> 2048, decodes |-> FALSE, tags |-> NoTags]

\* A photo one byte over the size ceiling.
PhotoHuge ==
    [name |-> NameJpg, type |-> TypeJpeg, size |-> maxSize + 1, decodes |-> TRUE,
     tags |-> [NoTags EXCEPT !.DateTimeOriginal = Str(DateValid)]]

\* A File object is a handle: the state holds its identity, Content gives the
\* name, type and bytes read from it.
Content(file) ==
    CASE file = "PhotoFull"      -> PhotoFull
      [] file = "PhotoNoExif"    -> PhotoNoExif
      [] file = "PhotoBlankDate" -> PhotoBlankDate
      [] file = "PhotoEquator"   -> PhotoEquator
      [] file = "PhotoNoTime"    -> PhotoNoTime
      [] file = "PhotoDegreesOnly" -> PhotoDegreesOnly
      [] file = "Document"       -> Document
      [] file = "PhotoHuge"      -> PhotoHuge

Photos == {"PhotoFull", "PhotoNoExif", "PhotoBlankDate", "PhotoEquator", "PhotoNoTime"}

\* The largest number of files dropped at once.
MaxFiles == 2

RECURSIVE SeqsUpTo(_, _)
SeqsUpTo(S, n) ==
    IF n = 0 THEN {<<>>}
    ELSE LET shorter == SeqsUpTo(S, n - 1)
         IN  shorter \cup {Append(q, x) : q \in shorter, x \in S}

\* What the user drops on the dropzone: photos, or a list holding a document
\* or an oversize photo.
DropLists ==
    (SeqsUpTo(Photos, MaxFiles) \ {<<>>})
        \cup {<<"Document">>, <<"PhotoFull", "Document">>, <<"PhotoHuge", "PhotoFull">>,
              <<"PhotoDegreesOnly">>}

ProjectIds == {"p1"}

\* The { error } of a storage or database response: ok, or an error with a message.
Success == [ok |-> TRUE, message |-> <<>>]
Failure(message) == [ok |-> FALSE, message |-> message]

StorageResponses == {Success, Failure(MsgDenied), Failure(MsgExists)}
DatabaseResponses == {Success, Failure(MsgDenied)}

(***************************************************************************)
(* State                                                                   *)
(***************************************************************************)
VARIABLES
    files,                \* useState: the selected files
    previews,             \* useState: one object URL per selected file
    projectId,            \* useState
    locationDescription,  \* useState
    description,          \* useState
    fileRejections,       \* useDropzone: the files the last drop rejected
    isLoading,            \* useState
    error,                \* useState: the banner text, <<>> for null
    uploadProgress,       \* useState: <<numerator, denominator>> of the percentage
    uploadStatus,         \* useState
    pc,                   \* where the running handleSubmit is suspended
    run,                  \* what the running handleSubmit closed over, and its locals
    batchNo,              \* number of handleSubmit runs that passed validation
    storage,              \* the objects of the photos bucket, in upload order
    photos,               \* the rows of the photos table, in insert order
    trace,                \* every call the page has made, in order
    OPENWEATHER_API_KEY,  \* TRUE when process.env holds the key
    GOOGLE_MAPS_API_KEY,
    call,                 \* the library function last called on its own, and its argument
    result                \* what that call returned

vars ==
    <<files, previews, projectId, locationDescription, description, fileRejections, isLoading,
      error, uploadProgress, uploadStatus, pc, run, batchNo, storage, photos,
      trace, OPENWEATHER_API_KEY, GOOGLE_MAPS_API_KEY, call, result>>

uiVars == <<files, previews, projectId, locationDescription, description, fileRejections>>
envVars == <<OPENWEATHER_API_KEY, GOOGLE_MAPS_API_KEY>>
libVars == <<call, result>>
backendVars == <<storage, photos>>
batchVars == <<isLoading, uploadProgress, uploadStatus, pc, run, batchNo>>

NoError == <<>>

\* No library function has been called on its own.
NoCall == [fn |-> "", arg |-> Undefined]

\* No enrichment: the null weatherData / geoData.
NullData == [k |-> "null", lat |-> Undefined, lon |-> Undefined, dt |-> NullDate]

\* The storage path with the index left out of the name.
PathWithoutIndex(project, time, index, ext) ==
    [project |-> project, time |-> time, index |-> 0, ext |-> ext]

\* The storage path `${projectId}/${Date.now()}-${fileIndex}.${fileExt}`.
Path(project, time, index, ext) ==
    [project |-> project, time |-> time, index |-> index, ext |-> ext]

NoPath == [project |-> "", time |-> 0, index |-> -1, ext |-> <<>>]

NoRun ==
    [files |-> <<>>, projectId |-> "", locationDescription |-> <<>>,
     description |-> <<>>, i |-> 0, exifData |-> NullExif, dateTime |-> NullDate,
     gpsCoordinates |-> NullCoords, weatherData |-> NullData, geoData |-> NullData,
     filePath |-> NoPath]

Status(text, k, n) == [text |-> text, k |-> k, n |-> n]

Init ==
    /\ files = <<>>
    /\ previews = <<>>
    /\ projectId = ""
    /\ locationDescription = <<>>
    /\ description = <<>>
    /\ fileRejections = <<>>
    /\ isLoading = FALSE
    /\ error = NoError
    /\ uploadProgress = <<0, 1>>
    /\ uploadStatus = Status("", 0, 0)
    /\ pc = "idle"
    /\ run = NoRun
    /\ batchNo = 0
    /\ storage = <<>>
    /\ photos = <<>>
    /\ trace = <<>>
    /\ OPENWEATHER_API_KEY \in BOOLEAN
    /\ GOOGLE_MAPS_API_KEY \in BOOLEAN
    /\ call = NoCall
    /\ result = Undefined

(***************************************************************************)
(* UploadPage: selection                                                   *)
(***************************************************************************)
\* file.type.startsWith('image/')
StartsWith(s, prefix) == Len(s) >= Len(prefix) /\ SubSeq(s, 1, Len(prefix)) = prefix

IsImage(file) == StartsWith(Content(file).type, <<"i", "m", "a", "g", "e", "/">>)

\* URL.createObjectURL(file)
ObjectURL(file) == [blob |-> file]

Splice(s, index) == SubSeq(s, 1, index - 1) \o Tail2(s, index + 1)

\* The page is mounted until the redirect.
Mounted == pc # "done"

\* The dropzone with no size ceiling.
fileAcceptedAnySize(file) == IsImage(file)

\* useDropzone({accept: {'image/*': []}, maxSize}): a dropped file is accepted
\* when its type matches image/* and its size is at most maxSize; the others
\* are rejected and never handed to onDrop.
fileAccepted(file) == IsImage(file) /\ Content(file).size <= maxSize

acceptedFilesOf(dropped) == SelectSeq(dropped, fileAccepted)

fileRejectionsOf(dropped) == SelectSeq(dropped, LAMBDA file : ~fileAccepted(file))

\* onDrop adding the dropped images to the selection.
onDropAppends(acceptedFiles) ==
    /\ Mounted
    /\ IF \A k \in 1..Len(acceptedFiles) : IsImage(acceptedFiles[k])
       THEN /\ error' = NoError
            /\ files' = files \o acceptedFiles
            /\ previews' = previews \o
                               [k \in 1..Len(acceptedFiles) |-> ObjectURL(acceptedFiles[k])]
       ELSE /\ error' = MsgOnlyImages
            /\ UNCHANGED <<files, previews>>
    /\ UNCHANGED <<projectId, locationDescription, description, batchVars,
                   backendVars, trace, envVars, libVars>>

\* onDrop(acceptedFiles): setError(null), then the non-image test, then the
\* selection and its previews are replaced.
onDrop(acceptedFiles) ==
    /\ Mounted
    /\ IF \A k \in 1..Len(acceptedFiles) : IsImage(acceptedFiles[k])
       THEN /\ error' = NoError
            /\ files' = acceptedFiles
            /\ previews' = [k \in 1..Len(acceptedFiles) |-> ObjectURL(acceptedFiles[k])]
       ELSE /\ error' = MsgOnlyImages
            /\ UNCHANGED <<files, previews>>
    /\ UNCHANGED <<projectId, locationDescription, description, batchVars,
                   backendVars, trace, envVars, libVars>>

\* removeFile with its button rendered also while loading.
removeFileWhileLoading(index) ==
    /\ Mounted
    /\ index \in 1..Len(previews)
    /\ files' = Splice(files, index)
    /\ previews' = Splice(previews, index)
    /\ UNCHANGED <<projectId, locationDescription, description, fileRejections, error,
                   batchVars, backendVars, trace, envVars, libVars>>

\* The remove button of preview index is rendered only while not loading.
removeFile(index) ==
    /\ Mounted
    /\ ~isLoading
    /\ index \in 1..Len(previews)
    /\ files' = Splice(files, index)
    /\ previews' = Splice(previews, index)
    /\ UNCHANGED <<projectId, locationDescription, description, fileRejections, error,
                   batchVars, backendVars, trace, envVars, libVars>>

\* The project select and the two text areas are disabled while loading.
setProjectId(p) ==
    /\ Mounted
    /\ ~isLoading
    /\ projectId' = p
    /\ UNCHANGED <<files, previews, locationDescription, description, fileRejections,
                   error, batchVars, backendVars, trace, envVars, libVars>>

setLocationDescription(t) ==
    /\ Mounted
    /\ ~isLoading
    /\ locationDescription' = t
    /\ UNCHANGED <<files, previews, projectId, description, fileRejections, error,
                   batchVars, backendVars, trace, envVars, libVars>>

setDescription(t) ==
    /\ Mounted
    /\ ~isLoading
    /\ description' = t
    /\ UNCHANGED <<files, previews, projectId, locationDescription, fileRejections,
                   error, batchVars, backendVars, trace, envVars, libVars>>

(***************************************************************************)
(* UploadPage: handleSubmit                                                *)
(***************************************************************************)
Event(op, out) == [op |-> op, batch |-> batchNo, idx |-> run.i, out |-> out]

\* Date.now(): the page's time advances with every call it makes.
Now == Len(trace)

\* file.name.split('.').pop()
FileExt(file) == LET parts == SplitChar(Content(file).name, ".") IN parts[Len(parts)]

\* Catch with the throw lost: the error is shown and the loop body goes on.
CatchSwallowed(message) ==
    /\ error' = IF message = <<>> THEN MsgFallback ELSE message
    /\ isLoading' = isLoading
    /\ pc' = "insert"

\* The catch block: setError(err.message || fallback); setIsLoading(false).
Catch(message) ==
    /\ error' = IF message = <<>> THEN MsgFallback ELSE message
    /\ isLoading' = FALSE
    /\ pc' = "idle"

\* The lookup made first for a file, or the upload when none is made.
AfterExtract(gpsCoordinates, dateTime) ==
    IF gpsCoordinates.k # "null"
    THEN IF dateTime.k # "null" THEN "weather" ELSE "geocode"
    ELSE "upload"

\* dateTime ? dateTime.toISOString() : null, for a valid Date.
TakenAt(dateTime) ==
    IF dateTime.k = "null" THEN NullDate ELSE [k |-> "iso", c |-> dateTime.c]

\* PhotoRow with the status of a row whose analysis has begun.
PhotoRowProcessing ==
    [project_id |-> run.projectId,
     uploaded_by |-> "user",
     storage_path |-> run.filePath,
     description |-> run.description,
     location_description |-> run.locationDescription,
     exif_data |-> run.exifData,
     weather_data |-> run.weatherData,
     geo_data |-> run.geoData,
     taken_at |-> TakenAt(run.dateTime),
     ai_processed |-> FALSE,
     ai_processing_status |-> "processing"]

PhotoRow ==
    [project_id |-> run.projectId,
     uploaded_by |-> "user",
     storage_path |-> run.filePath,
     description |-> run.description,
     location_description |-> run.locationDescription,
     exif_data |-> run.exifData,
     weather_data |-> run.weatherData,
     geo_data |-> run.geoData,
     taken_at |-> TakenAt(run.dateTime),
     ai_processed |-> FALSE,
     ai_processing_status |-> "pending"]

\* handleSubmit with setIsLoading(true) ahead of the two validations.
handleSubmitLoadingFirst ==
    /\ Mounted
    /\ pc = "idle"
    /\ ~isLoading
    /\ IF files = <<>>
       THEN /\ error' = MsgSelectPhoto
            /\ isLoading' = TRUE
            /\ UNCHANGED <<uploadProgress, uploadStatus, pc, run, batchNo>>
       ELSE IF projectId = ""
       THEN /\ error' = MsgSelectProject
            /\ isLoading' = TRUE
            /\ UNCHANGED <<uploadProgress, uploadStatus, pc, run, batchNo>>
       ELSE /\ isLoading' = TRUE
            /\ error' = NoError
            /\ uploadProgress' = <<0, 1>>
            /\ uploadStatus' = Status("Processing file", 1, Len(files))
            /\ run' = [NoRun EXCEPT !.files = files, !.projectId = projectId,
                                    !.locationDescription = locationDescription,
                                    !.description = description]
            /\ batchNo' = batchNo + 1
            /\ pc' = "extract"
    /\ UNCHANGED <<uiVars, backendVars, trace, envVars, libVars>>

\* handleSubmit with the loop started at the second file.
handleSubmitFromSecond ==
    /\ Mounted
    /\ pc = "idle"
    /\ ~isLoading
    /\ IF files = <<>>
       THEN /\ error' = MsgSelectPhoto
            /\ UNCHANGED batchVars
       ELSE IF projectId = ""
       THEN /\ error' = MsgSelectProject
            /\ UNCHANGED batchVars
       ELSE /\ isLoading' = TRUE
            /\ error' = NoError
            /\ uploadProgress' = <<0, 1>>
            /\ run' = [NoRun EXCEPT !.files = files, !.projectId = projectId,
                                    !.locationDescription = locationDescription,
                                    !.description = description, !.i = 1]
            /\ batchNo' = batchNo + 1
            /\ IF Len(files) > 1
               THEN /\ uploadStatus' = Status("Processing file", 2, Len(files))
                    /\ pc' = "extract"
               ELSE /\ uploadStatus' = Status("Upload complete!", 0, 0)
                    /\ pc' = "done"
    /\ UNCHANGED <<uiVars, backendVars, trace, envVars, libVars>>

\* The synchronous part of handleSubmit: the two validations, then the state
\* of the first loop iteration up to its first await.
handleSubmit ==
    /\ Mounted
    /\ pc = "idle"
    /\ ~isLoading
    /\ IF files = <<>>
       THEN /\ error' = MsgSelectPhoto
            /\ UNCHANGED batchVars
       ELSE IF projectId = ""
       THEN /\ error' = MsgSelectProject
            /\ UNCHANGED batchVars
       ELSE /\ isLoading' = TRUE
            /\ error' = NoError
            /\ uploadProgress' = <<0, 1>>
            /\ uploadStatus' = Status("Processing file", 1, Len(files))
            /\ run' = [NoRun EXCEPT !.files = files, !.projectId = projectId,
                                    !.locationDescription = locationDescription,
                                    !.description = description]
            /\ batchNo' = batchNo + 1
            /\ pc' = "extract"
    /\ UNCHANGED <<uiVars, backendVars, trace, envVars, libVars>>

\* What the first three statements of the loop body compute for a file:
\* exifData = await extractExifData(file), a value bound once, then
\* extractDateTime and extractGPSCoordinates when exifData is not null.
MetadataOf(file) ==
    CHOOSE m \in {[exifData |-> exifData,
                   dateTime |-> IF exifData.isNull THEN NullDate ELSE extractDateTime(exifData),
                   gpsCoordinates |->
                       IF exifData.isNull THEN NullCoords ELSE extractGPSCoordinates(exifData)] :
                      exifData \in {extractExifData(Content(file))}} : TRUE

\* The same for each file, computed once.
Metadata ==
    [file \in Photos \cup {"PhotoHuge", "Document", "PhotoDegreesOnly"} |-> MetadataOf(file)]

\* await extractExifData(file); extractDateTime; extractGPSCoordinates;
\* await extractLocationFromDescription(locationDescription).
Extract ==
    /\ pc = "extract"
    /\ LET file == run.files[run.i + 1]
           exifData == Metadata[file].exifData
           dateTime == Metadata[file].dateTime
           gpsCoordinates == Metadata[file].gpsCoordinates
           hint == extractLocationFromDescription(run.locationDescription)
       IN  /\ run' = [run EXCEPT !.exifData = exifData, !.dateTime = dateTime,
                                 !.gpsCoordinates = gpsCoordinates,
                                 !.weatherData = NullData, !.geoData = NullData,
                                 !.filePath = NoPath]
           /\ pc' = AfterExtract(gpsCoordinates, dateTime)
           /\ trace' = trace \o <<Event("extract", IF exifData.isNull THEN "null" ELSE "ok"),
                                  Event("locate", IF hint.rawDescription = run.locationDescription
                                                  THEN "ok" ELSE "changed")>>
    /\ UNCHANGED <<uiVars, error, isLoading, uploadProgress, uploadStatus, batchNo,
                   backendVars, envVars, libVars>>

\* getWeatherData without its try: a failed request rejects and reaches the catch
\* block of handleSubmit.
WeatherUncaught ==
    /\ pc = "weather"
    /\ IF ~OPENWEATHER_API_KEY
       THEN /\ Catch(MsgMissingWeatherKey)
            /\ trace' = Append(trace, Event("weather", "throw"))
            /\ UNCHANGED run
       ELSE \E out \in {"ok", "error"} :
            /\ trace' = Append(trace, Event("weather", out))
            /\ IF out = "ok"
               THEN /\ run' = [run EXCEPT !.weatherData =
                               [k |-> "weather", lat |-> run.gpsCoordinates.lat,
                                lon |-> run.gpsCoordinates.lon, dt |-> run.dateTime]]
                    /\ pc' = "geocode"
                    /\ UNCHANGED <<error, isLoading>>
               ELSE /\ Catch(MsgFallback)
                    /\ UNCHANGED run
    /\ UNCHANGED <<uiVars, uploadProgress, uploadStatus, batchNo, backendVars, envVars, libVars>>

\* await getWeatherData(lat, lon, Math.floor(dateTime.getTime() / 1000))
Weather ==
    /\ pc = "weather"
    /\ IF ~OPENWEATHER_API_KEY
       THEN /\ Catch(MsgMissingWeatherKey)
            /\ trace' = Append(trace, Event("weather", "throw"))
            /\ UNCHANGED run
       ELSE \E out \in {"ok", "error"} :
            /\ run' = [run EXCEPT !.weatherData =
                          IF out = "ok"
                          THEN [k |-> "weather", lat |-> run.gpsCoordinates.lat,
                                lon |-> run.gpsCoordinates.lon, dt |-> run.dateTime]
                          ELSE NullData]
            /\ pc' = "geocode"
            /\ trace' = Append(trace, Event("weather", out))
            /\ UNCHANGED <<error, isLoading>>
    /\ UNCHANGED <<uiVars, uploadProgress, uploadStatus, batchNo, backendVars, envVars, libVars>>

\* Geocode keeping its result only when the weather lookup gave one.
GeocodeNeedsWeather ==
    /\ pc = "geocode"
    /\ IF ~GOOGLE_MAPS_API_KEY
       THEN /\ Catch(MsgMissingMapsKey)
            /\ trace' = Append(trace, Event("geocode", "throw"))
            /\ UNCHANGED run
       ELSE \E out \in {"ok", "empty", "error"} :
            /\ run' = [run EXCEPT !.geoData =
                          IF out = "ok" /\ run.weatherData # NullData
                          THEN [k |-> "geo", lat |-> run.gpsCoordinates.lat,
                                lon |-> run.gpsCoordinates.lon, dt |-> NullDate]
                          ELSE NullData]
            /\ pc' = "upload"
            /\ trace' = Append(trace, Event("geocode", out))
            /\ UNCHANGED <<error, isLoading>>
    /\ UNCHANGED <<uiVars, uploadProgress, uploadStatus, batchNo, backendVars, envVars, libVars>>

\* await getLocationFromCoordinates(lat, lon): results[0] when the status is
\* OK and the list is not empty, else null; null when the request fails.
Geocode ==
    /\ pc = "geocode"
    /\ IF ~GOOGLE_MAPS_API_KEY
       THEN /\ Catch(MsgMissingMapsKey)
            /\ trace' = Append(trace, Event("geocode", "throw"))
            /\ UNCHANGED run
       ELSE \E out \in {"ok", "empty", "error"} :
            /\ run' = [run EXCEPT !.geoData =
                          IF out = "ok"
                          THEN [k |-> "geo", lat |-> run.gpsCoordinates.lat,
                                lon |-> run.gpsCoordinates.lon, dt |-> NullDate]
                          ELSE NullData]
            /\ pc' = "upload"
            /\ trace' = Append(trace, Event("geocode", out))
            /\ UNCHANGED <<error, isLoading>>
    /\ UNCHANGED <<uiVars, uploadProgress, uploadStatus, batchNo, backendVars, envVars, libVars>>

\* The percentage with the file being persisted not counted.
PercentageBefore(i, total) == <<i * 100, total>>

\* ((i + 1) / files.length) * 100, as <<numerator, denominator>>.
Percentage(i, total) == <<(i + 1) * 100, total>>

\* Upload with the insert not awaited: the loop goes on to the next file while
\* the insert of this one is still pending.
UploadThenNextFile ==
    /\ pc = "upload"
    /\ LET file == run.files[run.i + 1]
           filePath == Path(run.projectId, Now, run.i, FileExt(file))
       IN  \E response \in StorageResponses :
            /\ IF response.ok
               THEN /\ storage' = Append(storage, [path |-> filePath, file |-> file])
                    /\ trace' = Append(trace, Event("upload", "ok"))
                    /\ IF run.i + 1 < Len(run.files)
                       THEN /\ run' = [run EXCEPT !.i = run.i + 1]
                            /\ uploadStatus' =
                                   Status("Processing file", run.i + 2, Len(run.files))
                            /\ pc' = "extract"
                       ELSE /\ uploadStatus' = Status("Upload complete!", 0, 0)
                            /\ pc' = "done"
                            /\ UNCHANGED run
                    /\ UNCHANGED <<error, isLoading>>
               ELSE /\ uploadStatus' = Status("Uploading file", run.i + 1, Len(run.files))
                    /\ Catch(MsgUploadPrefix \o response.message)
                    /\ trace' = Append(trace, Event("upload", "error"))
                    /\ UNCHANGED <<storage, run>>
    /\ UNCHANGED <<uiVars, uploadProgress, batchNo, photos, envVars, libVars>>

\* await supabase.storage.from('photos').upload(filePath, file, {upsert: false})
Upload ==
    /\ pc = "upload"
    /\ LET file == run.files[run.i + 1]
           filePath == Path(run.projectId, Now, run.i, FileExt(file))
           taken == \E k \in 1..Len(storage) : storage[k].path = filePath
       IN  \E response \in StorageResponses :
            /\ response.ok => ~taken
            /\ uploadStatus' = Status("Uploading file", run.i + 1, Len(run.files))
            /\ IF response.ok
               THEN /\ storage' = Append(storage, [path |-> filePath, file |-> file])
                    /\ run' = [run EXCEPT !.filePath = filePath]
                    /\ pc' = "insert"
                    /\ trace' = Append(trace, Event("upload", "ok"))
                    /\ UNCHANGED <<error, isLoading>>
               ELSE /\ Catch(MsgUploadPrefix \o response.message)
                    /\ trace' = Append(trace, Event("upload", "error"))
                    /\ UNCHANGED <<storage, run>>
    /\ UNCHANGED <<uiVars, uploadProgress, batchNo, photos, envVars, libVars>>

\* Insert computing the progress from the selection on the page, not from the
\* files of the running batch.
InsertCountsCurrentSelection ==
    /\ pc = "insert"
    /\ IF run.dateTime.k = "invalid"
       THEN /\ Catch(MsgInvalidTime)
            /\ trace' = Append(trace, Event("insert", "throw"))
            /\ UNCHANGED <<photos, run, uploadProgress, uploadStatus>>
       ELSE \E response \in DatabaseResponses :
            IF response.ok
            THEN /\ photos' = Append(photos, PhotoRow)
                 /\ uploadProgress' = Percentage(run.i, Len(files))
                 /\ trace' = Append(trace, Event("insert", "ok"))
                 /\ IF run.i + 1 < Len(run.files)
                    THEN /\ run' = [run EXCEPT !.i = run.i + 1]
                         /\ uploadStatus' = Status("Processing file", run.i + 2, Len(run.files))
                         /\ pc' = "extract"
                    ELSE /\ uploadStatus' = Status("Upload complete!", 0, 0)
                         /\ pc' = "done"
                         /\ UNCHANGED run
                 /\ UNCHANGED <<error, isLoading>>
            ELSE /\ Catch(MsgSavePrefix \o response.message)
                 /\ trace' = Append(trace, Event("insert", "error"))
                 /\ UNCHANGED <<photos, run, uploadProgress, uploadStatus>>
    /\ UNCHANGED <<uiVars, batchNo, storage, envVars, libVars>>

\* Insert whose error is not thrown: the loop goes on to the next file, or to
\* the redirect, without the row.
InsertErrorIgnored ==
    /\ pc = "insert"
    /\ IF run.dateTime.k = "invalid"
       THEN /\ Catch(MsgInvalidTime)
            /\ trace' = Append(trace, Event("insert", "throw"))
            /\ UNCHANGED <<photos, run, uploadProgress, uploadStatus>>
       ELSE \E response \in DatabaseResponses :
            /\ photos' = IF response.ok THEN Append(photos, PhotoRow) ELSE photos
            /\ uploadProgress' = Percentage(run.i, Len(run.files))
            /\ trace' = Append(trace, Event("insert", IF response.ok THEN "ok" ELSE "error"))
            /\ IF run.i + 1 < Len(run.files)
               THEN /\ run' = [run EXCEPT !.i = run.i + 1]
                    /\ uploadStatus' = Status("Processing file", run.i + 2, Len(run.files))
                    /\ pc' = "extract"
               ELSE /\ uploadStatus' = Status("Upload complete!", 0, 0)
                    /\ pc' = "done"
                    /\ UNCHANGED run
            /\ UNCHANGED <<error, isLoading>>
    /\ UNCHANGED <<uiVars, batchNo, storage, envVars, libVars>>

\* await supabase.from('photos').insert({...}); setUploadProgress; the next
\* iteration up to its first await, or the redirect after the last file.
Insert ==
    /\ pc = "insert"
    /\ IF run.dateTime.k = "invalid"
       THEN /\ Catch(MsgInvalidTime)
            /\ trace' = Append(trace, Event("insert", "throw"))
            /\ UNCHANGED <<photos, run, uploadProgress, uploadStatus>>
       ELSE \E response \in DatabaseResponses :
            IF response.ok
            THEN /\ photos' = Append(photos, PhotoRow)
                 /\ uploadProgress' = Percentage(run.i, Len(run.files))
                 /\ trace' = Append(trace, Event("insert", "ok"))
                 /\ IF run.i + 1 < Len(run.files)
                    THEN /\ run' = [run EXCEPT !.i = run.i + 1]
                         /\ uploadStatus' = Status("Processing file", run.i + 2, Len(run.files))
                         /\ pc' = "extract"
                    ELSE /\ uploadStatus' = Status("Upload complete!", 0, 0)
                         /\ pc' = "done"
                         /\ UNCHANGED run
                 /\ UNCHANGED <<error, isLoading>>
            ELSE /\ Catch(MsgSavePrefix \o response.message)
                 /\ trace' = Append(trace, Event("insert", "error"))
                 /\ UNCHANGED <<photos, run, uploadProgress, uploadStatus>>
    /\ UNCHANGED <<uiVars, batchNo, storage, envVars, libVars>>

(***************************************************************************)
(* One visit of the upload page: the user composes the selection, chooses  *)
(* the project, may type a location, submits, and leaves the page alone    *)
(* while the batch runs.  The description, which is only copied into the   *)
(* row, is left empty.                                                     *)
(***************************************************************************)
Composing == batchNo = 0

Drop ==
    \E dropped \in DropLists :
        /\ Composing
        /\ onDrop(acceptedFilesOf(dropped))
        /\ fileRejections' = fileRejectionsOf(dropped)
Remove == \E index \in 1..MaxFiles : Composing /\ removeFile(index)
ChooseProject == \E p \in ProjectIds \cup {""} : Composing /\ setProjectId(p)
TypeLocation == \E t \in {<<>>, LocationText} : Composing /\ setLocationDescription(t)
Submit == Composing /\ handleSubmit

Next ==
    \/ Drop
    \/ Remove
    \/ ChooseProject
    \/ TypeLocation
    \/ Submit
    \/ Extract
    \/ Weather
    \/ Geocode
    \/ Upload
    \/ Insert

Spec == Init /\ [][Next]_vars

\* A visit with a photo with full metadata, one with a blank date or one with
\* no metadata, in which every awaited call settles: a step of the running
\* handler that is enabled is eventually taken.
FewDrops == SeqsUpTo({"PhotoFull", "PhotoBlankDate", "PhotoNoExif"}, MaxFiles) \ {<<>>}

DropFew ==
    \E dropped \in FewDrops :
        /\ Composing
        /\ onDrop(acceptedFilesOf(dropped))
        /\ fileRejections' = fileRejectionsOf(dropped)

FairNext ==
    \/ DropFew
    \/ ChooseProject
    \/ Submit
    \/ Extract
    \/ Weather
    \/ Geocode
    \/ Upload
    \/ Insert

FairSpec ==
    /\ Init
    /\ [][FairNext]_vars
    /\ WF_vars(Extract)
    /\ WF_vars(Weather)
    /\ WF_vars(Geocode)
    /\ WF_vars(Upload)
    /\ WF_vars(Insert)

(***************************************************************************)
(* The photos bucket shared with other sessions: a visit of the page with  *)
(* photos that carry no metadata, while another session running the same   *)
(* handleSubmit uploads to the same bucket.                                *)
(***************************************************************************)
\* The most objects other sessions upload during the visit.
MaxOtherUploads == 1

PlainDrops == SeqsUpTo({"PhotoNoExif"}, MaxFiles) \ {<<>>}

\* The objects this page has uploaded.
OwnUploads == Cardinality({p \in 1..Len(trace) : trace[p].op = "upload" /\ trace[p].out = "ok"})

\* The upload step of another session's handleSubmit, for file index of its
\* batch, in the same millisecond as this page's next call.
OtherSessionUpload ==
    \E project \in ProjectIds, index \in 0..(MaxFiles - 1) :
        LET filePath == Path(project, Now, index, FileExt("PhotoNoExif"))
        IN  /\ Len(storage) - OwnUploads < MaxOtherUploads
            /\ \A k \in 1..Len(storage) : storage[k].path # filePath
            /\ storage' = Append(storage, [path |-> filePath, file |-> "PhotoNoExif"])
            /\ UNCHANGED <<uiVars, error, batchVars, photos, trace, envVars, libVars>>

DropPlain ==
    \E dropped \in PlainDrops :
        /\ Composing
        /\ onDrop(acceptedFilesOf(dropped))
        /\ fileRejections' = fileRejectionsOf(dropped)

BucketNext ==
    \/ DropPlain
    \/ ChooseProject
    \/ Submit
    \/ Extract
    \/ Upload
    \/ Insert
    \/ OtherSessionUpload

BucketSpec == Init /\ [][BucketNext]_vars

(***************************************************************************)
(* A stay on the upload page over several submits: after a failed batch    *)
(* the page is still mounted and the form is enabled again; files can be   *)
(* dragged onto the dropzone at any time, also while a batch runs (only    *)
(* the file input, the text inputs and the buttons follow isLoading).  The *)
(* photos are one without metadata and one taken on the equator, for which *)
(* no lookup is made; the location is typed before the first submit.      *)
(***************************************************************************)
\* The most batches submitted during the stay.
MaxBatches == 2

SessionDrops == {<<"PhotoNoExif", "PhotoEquator">>, <<"PhotoEquator">>}

DropAnyTime ==
    \E dropped \in SessionDrops :
        /\ onDrop(acceptedFilesOf(dropped))
        /\ fileRejections' = fileRejectionsOf(dropped)

RemoveWhenShown == \E index \in 1..MaxFiles : removeFile(index)

ChooseProjectWhenEnabled == \E p \in ProjectIds : setProjectId(p)

SubmitAgain == batchNo < MaxBatches /\ handleSubmit

SessionNext ==
    \/ DropAnyTime
    \/ RemoveWhenShown
    \/ ChooseProjectWhenEnabled
    \/ TypeLocation
    \/ SubmitAgain
    \/ Extract
    \/ Upload
    \/ Insert

SessionSpec == Init /\ [][SessionNext]_vars

(***************************************************************************)
(* onDrop and removeFile called on the selection, onDrop with any list of  *)
(* files: images only, or with a document among them.                      *)
(***************************************************************************)
HandedLists == SeqsUpTo(Photos \cup {"Document"}, MaxFiles)

DropHanded ==
    \E acceptedFiles \in HandedLists :
        /\ onDrop(acceptedFiles)
        /\ fileRejections' = <<>>

SelectionNext ==
    \/ DropHanded
    \/ Remove
    \/ ChooseProject

SelectionSpec == Init /\ [][SelectionNext]_vars

(***************************************************************************)
(* The functions of lib/exif-utils and lib/external-apis called on their   *)
(* own, on inputs written out character by character.                      *)
(***************************************************************************)
\* The degree sign (U+00B0), one element of a string.
DegreeSign == "U+00B0"

\* A DMS description is written as degrees, a separator, minutes, a
\* separator, seconds, a separator and the hemisphere; a token may be missing
\* or not a number.
DegreeTokens == {<<"2", "5">>, <<"0">>, <<"1", "2", "1">>, <<>>, <<"x">>}
MinuteTokens == {<<"2">>, <<"3", "0">>, <<>>, <<"2", "x">>}
SecondTokens == {<<"3", "0">>, <<"3", "5", ".", "6", "6">>, <<"0">>, <<>>, <<"s">>}
DegreeSeparators == {<<"d", "e", "g", " ">>, <<" ", "d", "e", "g", " ">>, <<DegreeSign, " ">>}
MinuteSeparator == <<"'", " ">>
SecondSeparator == <<"\"", " ">>
Hemispheres == {"N", "E", "S", "W"}

DmsInputs ==
    [d : DegreeTokens, sd : DegreeSeparators, m : MinuteTokens, s : SecondTokens,
     h : Hemispheres]

\* The string of a DMS input.
DmsText(in) ==
    in.d \o in.sd \o in.m \o MinuteSeparator \o in.s \o SecondSeparator \o <<in.h>>

pageVars == <<uiVars, error, batchVars, backendVars, trace, envVars>>

\* 121 deg 33' 0" E, the unit apart from the degrees
LonSpaced ==
    <<"1", "2", "1", " ", "d", "e", "g", " ", "3", "3", "'", " ", "0", "\"", " ", "E">>

\* The tag blocks ExifReader.load may decode, or fail to decode: every tag
\* absent or with one of a few descriptions; a GPS description is a DMS
\* string, or a number when the reader gives decimal degrees.
ExifInputs ==
    [name : {NameJpg}, type : {TypeJpeg}, size : {2048}, decodes : BOOLEAN,
     tags : [DateTimeOriginal : {Undefined, Str(DateValid), Str(DateBlank), Str(<<>>)},
             DateTime : {Undefined, Str(DateOther)},
             GPSLatitude : {Undefined, Str(LatTaipei), Str(LatEquator),
                            Str(LatDegreesOnly), Num(2504)},
             GPSLongitude : {Undefined, Str(LonTaipei), Str(LonSpaced), Num(12155)},
             Make : {Undefined, Str(<<"X">>)},
             Model : {Undefined},
             ImageWidth : {Undefined, Num(4)},
             ImageHeight : {Undefined, Num(3)}]]

\* convertDMSToDecimal(dms) on a string.
ConvertDMS ==
    \E in \in DmsInputs :
        /\ call = NoCall
        /\ call' = [fn |-> "convertDMSToDecimal", arg |-> in]
        /\ result' = convertDMSToDecimal(Str(DmsText(in)))
        /\ UNCHANGED pageVars

\* extractExifData(file), then extractDateTime and extractGPSCoordinates as the
\* page calls them: on a result that is not null.
ExtractMetadata ==
    \E file \in ExifInputs :
        /\ call = NoCall
        /\ call' = [fn |-> "extractExifData", arg |-> file]
        /\ result' =
               LET exifData == extractExifData(file)
               IN  [exifData |-> exifData,
                    dateTime |-> IF exifData.isNull THEN NullDate
                                 ELSE extractDateTime(exifData),
                    gpsCoordinates |-> IF exifData.isNull THEN NullCoords
                                       ELSE extractGPSCoordinates(exifData)]
        /\ UNCHANGED pageVars

\* The longest description typed character by character.
MaxDescription == 3

DescriptionChars == {"4", "1", "F", "f", "B", "b", " ", ZoneMarker}

\* "none", a description with no pattern in it
DescriptionPlain ==
    <<"n", "o", "n", "e">>

Descriptions ==
    SeqsUpTo(DescriptionChars, MaxDescription) \cup {LocationText, DescriptionPlain}

\* extractLocationFromDescription(description)
ParseLocation ==
    \E text \in Descriptions :
        /\ call = NoCall
        /\ call' = [fn |-> "extractLocationFromDescription", arg |-> text]
        /\ result' = extractLocationFromDescription(text)
        /\ UNCHANGED pageVars

LibInit == Init /\ OPENWEATHER_API_KEY /\ GOOGLE_MAPS_API_KEY

LibNext ==
    \/ ConvertDMS
    \/ ExtractMetadata
    \/ ParseLocation

LibSpec == LibInit /\ [][LibNext]_vars

(***************************************************************************)
(* Reading the trace                                                       *)
(***************************************************************************)
Events == 1..Len(trace)

Is(p, op, out) == trace[p].op = op /\ trace[p].out = out

SameFile(p, q) == trace[p].batch = trace[q].batch /\ trace[p].idx = trace[q].idx

\* The number of rows inserted up to event p: the row of p when p is an insert.
RowsUpTo(p) == Cardinality({q \in 1..p : Is(q, "insert", "ok")})

\* The calls of batch b for file i, in order.
CallsOf(b, i) == SelectSeq(trace, LAMBDA e : e.batch = b /\ e.idx = i)

\* Every successful insert of the trace has its row, at its place, and the
\* table holds nothing else: nothing is rolled back, updated or deleted.
RowsKept ==
    /\ Len(photos) = RowsUpTo(Len(trace))
    /\ \A p \in Events : Is(p, "insert", "ok") =>
          photos[RowsUpTo(p)].storage_path.index = trace[p].idx

\* The batch of event p made no call after p.
StoppedAt(p) == \A q \in Events : q > p => trace[q].batch # trace[p].batch

\* Files 0..i-1 of the batch of event p were inserted before p, in that order.
InsertedBefore(p) ==
    LET inserts == SelectSeq(SubSeq(trace, 1, p),
                             LAMBDA e : e.batch = trace[p].batch /\ e.op = "insert"
                                          /\ e.out = "ok")
    IN  /\ Len(inserts) = trace[p].idx
        /\ \A k \in 1..Len(inserts) : inserts[k].idx = k - 1

(***************************************************************************)
(* Claims                                                                  *)
(***************************************************************************)
\* C1: when the storage upload of file i fails the batch stops at i: files
\* 0..i-1 have their rows, in order and still in the table, file i has no
\* row, and no call at all is made for a later file.
UploadFailureStopsBatch ==
    \A p \in Events : Is(p, "upload", "error") =>
        /\ StoppedAt(p)
        /\ \A q \in Events : SameFile(p, q) => trace[q].op # "insert"
        /\ \A q \in Events : trace[q].batch = trace[p].batch => trace[q].idx <= trace[p].idx
        /\ InsertedBefore(p)
        /\ RowsKept

\* The upload of the second file failed after the first file was persisted.
UploadFailedAtSecondFile ==
    /\ \E p \in Events : Is(p, "upload", "error") /\ trace[p].idx = 1
    /\ Len(photos) = 1
    /\ Len(storage) = 1
    /\ pc = "idle"

\* C2: when the insert of file i fails after its upload succeeded, the batch
\* stops at i: nothing is called afterwards (no later file, no second insert
\* of file i), files 0..i-1 keep their rows, and the banner shows the error.
InsertFailureStopsBatch ==
    \A p \in Events : Is(p, "insert", "error") =>
        /\ StoppedAt(p)
        /\ \E q \in 1..(p - 1) : SameFile(p, q) /\ Is(q, "upload", "ok")
        /\ InsertedBefore(p)
        /\ RowsKept
        /\ p = Len(trace) =>
              /\ pc = "idle"
              /\ ~isLoading
              /\ \E m \in {r.message : r \in DatabaseResponses \ {Success}} :
                    error = MsgSavePrefix \o m

\* The insert of the second file failed: two objects uploaded, one row.
InsertFailedAtSecondFile ==
    /\ \E p \in Events : Is(p, "insert", "error") /\ trace[p].idx = 1
    /\ Len(photos) = 1
    /\ Len(storage) = 2
    /\ error = MsgSavePrefix \o MsgDenied

\* C3: a provider error in the weather or geocoding lookup of a file does not
\* abort it: the lookup yields null, the handler goes on to the next step of
\* the same file, and the row persisted for the file has the field null and
\* status pending.
ProviderErrorIsNullEnrichment ==
    \A p \in Events : trace[p].op \in {"weather", "geocode"} /\ trace[p].out = "error" =>
        LET next == IF trace[p].op = "weather" THEN "geocode" ELSE "upload"
        IN  /\ p = Len(trace) =>
                  /\ pc = next
                  /\ isLoading
                  /\ IF trace[p].op = "weather" THEN run.weatherData = NullData
                                                ELSE run.geoData = NullData
            /\ p < Len(trace) => SameFile(p, p + 1) /\ trace[p + 1].op = next
            /\ \A q \in Events : SameFile(p, q) /\ Is(q, "insert", "ok") =>
                  LET row == photos[RowsUpTo(q)]
                  IN  /\ IF trace[p].op = "weather" THEN row.weather_data = NullData
                                                    ELSE row.geo_data = NullData
                      /\ row.ai_processing_status = "pending"

\* The weather lookup of the first file failed, its row has geo data and no
\* weather data, and the batch went on to persist the second file.
WeatherFailedAndBatchWentOn ==
    /\ \E p \in Events : Is(p, "weather", "error") /\ trace[p].idx = 0
    /\ Len(photos) = 2
    /\ photos[1].weather_data = NullData
    /\ photos[1].geo_data # NullData
    /\ photos[1].ai_processing_status = "pending"

\* C4: a lookup made while its credential is missing yields null enrichment
\* and the handler goes on with the file.
MissingCredentialIsNullEnrichment ==
    \A p \in Events :
        (\/ trace[p].op = "weather" /\ ~OPENWEATHER_API_KEY
         \/ trace[p].op = "geocode" /\ ~GOOGLE_MAPS_API_KEY) =>
            /\ trace[p].out # "throw"
            /\ p = Len(trace) => isLoading /\ pc \in {"geocode", "upload"}

\* C5: every row is created with ai_processing_status 'pending' and
\* ai_processed false, and the table only grows by such rows: no row is
\* updated or deleted.
PendingAtCreation ==
    /\ [](\A k \in 1..Len(photos) :
             photos[k].ai_processing_status = "pending" /\ photos[k].ai_processed = FALSE)
    /\ [][/\ Len(photos') >= Len(photos)
          /\ SubSeq(photos', 1, Len(photos)) = photos
          /\ \A k \in (Len(photos) + 1)..Len(photos') :
                photos'[k].ai_processing_status = "pending"]_vars

\* Two rows, one of a file without metadata and one with weather and geo data.
RowsOfDifferentOutcomes ==
    /\ Len(photos) = 2
    /\ \E k \in 1..2 : photos[k].exif_data.isNull
    /\ \E k \in 1..2 : photos[k].weather_data # NullData /\ photos[k].geo_data # NullData

\* The insert that created row k.
RowEvent(k) == CHOOSE p \in Events : Is(p, "insert", "ok") /\ RowsUpTo(p) = k

\* C6: within a batch rows are created in submission order: the row of file
\* i comes before the row of file j for i < j, and file j has a row only if
\* every file before it has one.
RowsInSubmissionOrder ==
    /\ Len(photos) = RowsUpTo(Len(trace))
    /\ \A k \in 1..Len(photos) :
          LET e == trace[RowEvent(k)]
          IN  /\ photos[k].storage_path.index = e.idx
              /\ \A j \in 0..(e.idx - 1) :
                    \E h \in 1..(k - 1) :
                        /\ trace[RowEvent(h)].batch = e.batch
                        /\ trace[RowEvent(h)].idx = j
              /\ \A h \in 1..(k - 1) :
                    trace[RowEvent(h)].batch = e.batch => trace[RowEvent(h)].idx < e.idx

\* A batch of two files completed: the rows of file 0 and file 1, in that order.
TwoRowsInOrder ==
    /\ pc = "done"
    /\ Len(photos) = 2
    /\ photos[1].storage_path.index = 0
    /\ photos[2].storage_path.index = 1

Rank(op) ==
    CASE op = "extract" -> 1
      [] op = "locate"  -> 2
      [] op = "weather" -> 3
      [] op = "geocode" -> 4
      [] op = "upload"  -> 5
      [] op = "insert"  -> 6

\* C7: the files of a batch are processed one after the other: a batch starts
\* with the extraction of file 0, a call for file i+1 is made only after the
\* insert of file i succeeded, and the calls of a file are made in the order
\* extract, location parse, weather, geocode, upload, insert, the upload
\* right before the insert.
StrictlySequential ==
    \A p \in Events :
        LET e == trace[p]
        IN  IF p = 1 \/ trace[p - 1].batch # e.batch
            THEN e.op = "extract" /\ e.idx = 0
            ELSE LET d == trace[p - 1]
                 IN  \/ /\ d.idx = e.idx
                        /\ Rank(d.op) < Rank(e.op)
                        /\ e.op = "locate" => d.op = "extract"
                        /\ e.op = "upload" => d.op \in {"locate", "geocode"}
                        /\ e.op = "insert" => d.op = "upload" /\ d.out = "ok"
                     \/ /\ e.idx = d.idx + 1
                        /\ e.op = "extract"
                        /\ d.op = "insert" /\ d.out = "ok"

\* Every step was taken for file 0 and the extraction of file 1 has begun.
SecondFileAfterFullFirst ==
    /\ Len(trace) >= 7
    /\ [k \in 1..7 |-> trace[k].op] =
          <<"extract", "locate", "weather", "geocode", "upload", "insert", "extract">>
    /\ trace[6].idx = 0
    /\ trace[7].idx = 1

\* Both decimals of the gps block are numbers.
GpsRecovered(exifData) ==
    /\ ~exifData.isNull
    /\ exifData.hasGps
    /\ exifData.latitudeDecimal.k = "num"
    /\ exifData.longitudeDecimal.k = "num"

\* C8: once the lookups of a file are over, the weather lookup was made iff
\* GPS decimals were recovered and a timestamp was derived, the geocoding
\* lookup iff GPS decimals were recovered, and without GPS decimals both
\* data are null.
LookupsFollowMetadata ==
    pc \in {"upload", "insert"} =>
        LET calls == CallsOf(batchNo, run.i)
            called(op) == \E k \in 1..Len(calls) : calls[k].op = op
            gps == GpsRecovered(run.exifData)
            timestamp == run.dateTime.k = "date"
        IN  /\ called("weather") <=> (gps /\ timestamp)
            /\ called("geocode") <=> gps
            /\ ~gps => run.weatherData = NullData /\ run.geoData = NullData

DigitChars == <<"0", "1", "2", "3", "4", "5", "6", "7", "8", "9">>

RECURSIVE Decimal(_)
\* String(n) for a natural number.
Decimal(n) ==
    IF n < 10 THEN <<DigitChars[n + 1]>>
    ELSE Decimal(n \div 10) \o <<DigitChars[(n % 10) + 1]>>

\* C9: when an upload or insert failure has aborted the batch at file i, the
\* banner names the file (its index, or its number as the status line counts)
\* together with the provider's message.
BannerNamesFailingFile ==
    \A p \in Events :
        (p = Len(trace) /\ trace[p].op \in {"upload", "insert"} /\ trace[p].out = "error") =>
            /\ \E r \in StorageResponses \cup DatabaseResponses :
                  ~r.ok /\ Includes(error, r.message)
            /\ \/ Includes(error, Decimal(trace[p].idx))
               \/ Includes(error, Decimal(trace[p].idx + 1))

\* "YYYY:MM:DD HH:MM:SS"
IsExifDate(s) ==
    /\ Len(s) = 19
    /\ \A p \in 1..19 :
          IF p \in {5, 8, 14, 17} THEN s[p] = ":"
          ELSE IF p = 11 THEN s[p] = " "
          ELSE s[p] \in Digits

\* The date string extractDateTime reads from exifData, if any.
DateStringOf(exifData) ==
    IF Truthy(exifData.dateTimeOriginal) THEN exifData.dateTimeOriginal
    ELSE IF Truthy(exifData.dateTime) THEN exifData.dateTime
    ELSE Undefined

MalformedDate(exifData) ==
    LET d == DateStringOf(exifData) IN d.k = "str" /\ ~IsExifDate(d.s)

\* C10: a malformed date never aborts ingestion: building the row never
\* throws, the row of a file with a malformed date has taken_at null, and
\* taken_at is an ISO string exactly when a timestamp was derived.
MalformedDateIsNullTakenAt ==
    /\ \A p \in Events : trace[p].op = "insert" => trace[p].out # "throw"
    /\ \A k \in 1..Len(photos) :
          /\ MalformedDate(photos[k].exif_data) => photos[k].taken_at = NullDate
          /\ photos[k].taken_at.k = "iso" <=>
                (~photos[k].exif_data.isNull
                   /\ extractDateTime(photos[k].exif_data).k = "date")

\* C11: no file that is not an image or that exceeds the size ceiling is ever
\* processed: the selection, the files of a running batch and the uploaded
\* objects are all images of at most maxSize bytes, and every rejected file
\* is absent from the selection.
OnlyAcceptedFilesProcessed ==
    LET ok(file) == IsImage(file) /\ Content(file).size <= maxSize
    IN  /\ \A k \in 1..Len(files) : ok(files[k])
        /\ \A k \in 1..Len(run.files) : ok(run.files[k])
        /\ \A k \in 1..Len(storage) : ok(storage[k].file)
        /\ \A p \in Events : ok(run.files[trace[p].idx + 1])
        /\ \A k \in 1..Len(fileRejections) : ~ok(fileRejections[k])

\* An oversize photo was dropped together with a photo at the ceiling; only
\* the latter was selected, and the batch persisted it.
OversizeRejectedBatchRan ==
    /\ fileRejections = <<"PhotoHuge">>
    /\ run.files = <<"PhotoFull">>
    /\ pc = "done"
    /\ Len(photos) = 1

\* The number of rows the batch b has persisted.
PersistedBy(b) == Cardinality({p \in Events : trace[p].batch = b /\ Is(p, "insert", "ok")})

\* C12: within a batch of n files the progress is 0 at the start, k / n * 100
\* once k files are persisted (k the number of rows the batch has created),
\* 100 only when all n are persisted, and it never decreases.
ProgressTracksPersisted ==
    /\ [](batchNo >= 1 =>
            LET k == PersistedBy(batchNo)
                n == Len(run.files)
            IN  /\ uploadProgress[1] * n = k * 100 * uploadProgress[2]
                /\ uploadProgress[1] = 100 * uploadProgress[2] => k = n
                /\ k = 0 => uploadProgress[1] = 0)
    /\ [][batchNo' = batchNo =>
             uploadProgress'[1] * uploadProgress[2] >= uploadProgress[1] * uploadProgress'[2]]_vars
    /\ [][batchNo' # batchNo => uploadProgress'[1] = 0]_vars

\* The first of two files is persisted and the second is being processed: 50.
ProgressHalfWay ==
    /\ uploadProgress = <<100, 2>>
    /\ Len(run.files) = 2
    /\ PersistedBy(batchNo) = 1
    /\ pc = "upload"
    /\ run.i = 1

\* A token that is a number: digits, or digits, a point and digits.
Numeric(tok) ==
    LET p == FirstNotIn(tok, Digits)
    IN  /\ p > 1
        /\ \/ p > Len(tok)
           \/ /\ tok[p] = "."
              /\ p < Len(tok)
              /\ \A q \in (p + 1)..Len(tok) : tok[q] \in Digits

\* A DMS input with a missing or non-numeric degrees, minutes or seconds token.
Malformed(in) == ~Numeric(in.d) \/ ~Numeric(in.m) \/ ~Numeric(in.s)

\* C13: for a malformed sexagesimal string (a missing or non-numeric token
\* for degrees, minutes or seconds) convertDMSToDecimal returns null, never
\* NaN or a number.
MalformedDMSGivesNull ==
    (call.fn = "convertDMSToDecimal" /\ Malformed(call.arg)) => result = Null

\* The value of a numeric token, in hundredths.
Hundredths(tok) ==
    LET p == FirstNotIn(tok, Digits)
        whole == DigitsValue(SubSeq(tok, 1, p - 1))
        tenths == IF p + 1 <= Len(tok) THEN DigitVal(tok[p + 1]) ELSE 0
        hundredths == IF p + 2 <= Len(tok) THEN DigitVal(tok[p + 2]) ELSE 0
    IN  100 * whole + 10 * tenths + hundredths

\* D + M/60 + S/3600 in units of 1/360000 degree, negated for S and W.
SignedDegrees(in) ==
    LET sum == 3600 * Hundredths(in.d) + 60 * Hundredths(in.m) + Hundredths(in.s)
    IN  IF in.h \in {"S", "W"} THEN -sum ELSE sum

\* C14: for a well-formed sexagesimal string (numeric D, M and S, whatever
\* separates them, hemisphere H) convertDMSToDecimal returns D + M/60 +
\* S/3600, negated when H is S or W.
WellFormedDMSGivesDecimal ==
    (call.fn = "convertDMSToDecimal" /\ ~Malformed(call.arg)) =>
        result = Num(SignedDegrees(call.arg))

\* One of the relevant tags exists in the tag block.
AnyRelevantTag(tags) == \E t \in TagNames : Present(tags[t])

\* The extracted record carries a date, a gps block, a make, a model or
\* dimensions.
CarriesMetadata(exifData) ==
    \/ Present(exifData.dateTimeOriginal)
    \/ Present(exifData.dateTime)
    \/ exifData.hasGps
    \/ Present(exifData.make)
    \/ Present(exifData.model)
    \/ exifData.hasDimensions

\* C15: extractExifData returns null when decoding fails and when no relevant
\* tag exists, so a result that is not null carries at least one field.
NoMetadataIsNull ==
    call.fn = "extractExifData" =>
        /\ ~call.arg.decodes => result.exifData.isNull
        /\ ~AnyRelevantTag(call.arg.tags) => result.exifData.isNull
        /\ ~result.exifData.isNull => CarriesMetadata(result.exifData)

\* The Date a string "YYYY:MM:DD HH:MM:SS" stands for: its fields read at
\* their places, the month as an index from 0.
ExifDate(s) ==
    [k |-> "date",
     c |-> <<DigitsValue(SubSeq(s, 1, 4)), DigitsValue(SubSeq(s, 6, 7)) - 1,
             DigitsValue(SubSeq(s, 9, 10)), DigitsValue(SubSeq(s, 12, 13)),
             DigitsValue(SubSeq(s, 15, 16)), DigitsValue(SubSeq(s, 18, 19))>>]

\* C16: when DateTimeOriginal is present the timestamp is derived from it
\* and DateTime is not used, whether DateTime is present or not; when it is
\* absent the timestamp is derived from DateTime; when both are absent there
\* is no timestamp.
PrefersDateTimeOriginal ==
    (call.fn = "extractExifData" /\ call.arg.decodes) =>
        LET original == call.arg.tags.DateTimeOriginal
            fallback == call.arg.tags.DateTime
            exifData == result.exifData
            timestamp == result.dateTime
        IN  /\ Present(original) =>
                  /\ exifData.dateTimeOriginal = original
                  /\ exifData.dateTime = Undefined
                  /\ IF IsExifDate(original.s) THEN timestamp = ExifDate(original.s)
                                               ELSE timestamp.k # "date"
            /\ (~Present(original) /\ Present(fallback)) =>
                  /\ exifData.dateTimeOriginal = Undefined
                  /\ exifData.dateTime = fallback
                  /\ timestamp = ExifDate(fallback.s)
            /\ (~Present(original) /\ ~Present(fallback)) => timestamp = NullDate

\* Both tags present with different dates: the timestamp is that of
\* DateTimeOriginal, 2024-03-15 10:30:00.
BothDatesOriginalWins ==
    /\ call.fn = "extractExifData"
    /\ call.arg.decodes
    /\ call.arg.tags.DateTimeOriginal = Str(DateValid)
    /\ call.arg.tags.DateTime = Str(DateOther)
    /\ result.dateTime = [k |-> "date", c |-> <<2024, 2, 15, 10, 30, 0>>]

\* C17: in every record extractExifData produces a decimal field is present
\* only as a number; when a coordinate does not convert its description is
\* retained and its decimal field is absent, and the date, make, model and
\* dimensions are what the tags hold.
DecimalOnlyWhenConverted ==
    (call.fn = "extractExifData" /\ ~result.exifData.isNull) =>
        LET tags == call.arg.tags
            exifData == result.exifData
        IN  /\ Present(exifData.latitudeDecimal) => exifData.latitudeDecimal.k = "num"
            /\ Present(exifData.longitudeDecimal) => exifData.longitudeDecimal.k = "num"
            /\ exifData.hasGps =>
                  /\ exifData.latitude = tags.GPSLatitude
                  /\ exifData.longitude = tags.GPSLongitude
            /\ exifData.make = tags.Make
            /\ exifData.model = tags.Model
            /\ exifData.hasDimensions <=> (Present(tags.ImageWidth) /\ Present(tags.ImageHeight))
            /\ Present(tags.DateTimeOriginal) => exifData.dateTimeOriginal = tags.DateTimeOriginal

Uppercase ==
    {"A", "B", "C", "D", "E", "F", "G", "H", "I", "J", "K", "L", "M",
     "N", "O", "P", "Q", "R", "S", "T", "U", "V", "W", "X", "Y", "Z"}

\* The integer at the start of the text when F or f follows it, else null.
LeadingFloor(text) ==
    LET n == FirstNotIn(text, Digits) - 1
    IN  IF n >= 1 /\ n < Len(text) /\ text[n + 1] \in {"F", "f"}
        THEN Str(SubSeq(text, 1, n)) ELSE Null

\* The uppercase letters of the text that the zone marker follows.
MarkedZones(text) ==
    {Str(<<text[p]>>) : p \in {q \in 1..(Len(text) - 1) :
                                  text[q] \in Uppercase /\ text[q + 1] = ZoneMarker}}

\* C18: the parser sets floor only to the integer that starts the description
\* and is followed by F or f, and zone only to an uppercase letter followed
\* by the zone marker; "4F B" with the marker gives floor "4" and zone "B".
FloorLeadingZoneUppercase ==
    call.fn = "extractLocationFromDescription" =>
        /\ result.floor # Null => result.floor = LeadingFloor(call.arg)
        /\ result.zone # Null => result.zone \in MarkedZones(call.arg)
        /\ call.arg = LocationText =>
              result.floor = Str(<<"4">>) /\ result.zone = Str(<<"B">>)

\* C19: for every description the parser returns the input unchanged as
\* rawDescription, floor null when no floor pattern matches and zone null
\* when no zone pattern matches.
NoMatchIsNull ==
    call.fn = "extractLocationFromDescription" =>
        /\ result.rawDescription = call.arg
        /\ LeadingFloor(call.arg) = Null => result.floor = Null
        /\ MarkedZones(call.arg) = {} => result.zone = Null

\* The path the pending upload is about to be given.
NextPath == Path(run.projectId, Now, run.i, FileExt(run.files[run.i + 1]))

\* C20: an upload never finds its storage path already taken.
UploadPathNeverTaken ==
    pc = "upload" => \A k \in 1..Len(storage) : storage[k].path # NextPath

\* C20, amended: every file is uploaded at the path made of the project, the
\* time, the file's position in the batch and its extension, and within one
\* batch no two uploads are given the same path: a path found taken was
\* taken by another session.
BatchPathsDistinct ==
    /\ \A k \in 1..Len(photos) :
          /\ photos[k].storage_path.project = run.projectId
          /\ photos[k].storage_path.index = k - 1
          /\ photos[k].storage_path.ext = FileExt(run.files[k])
          /\ \A h \in 1..Len(photos) : h # k => photos[h].storage_path # photos[k].storage_path
    /\ pc = "insert" =>
          /\ run.filePath.project = run.projectId
          /\ run.filePath.index = run.i
          /\ run.filePath.ext = FileExt(run.files[run.i + 1])
          /\ \A k \in 1..Len(photos) : photos[k].storage_path # run.filePath
    /\ pc = "upload" => \A k \in 1..Len(photos) : photos[k].storage_path # NextPath

\* Two files of one batch persisted at two paths while another session's
\* object lies in the bucket.
TwoPathsBesideOtherSession ==
    /\ pc = "done"
    /\ Len(photos) = 2
    /\ Len(storage) = 3
    /\ photos[1].storage_path.index = 0
    /\ photos[2].storage_path.index = 1

\* C21: a missing weather or geocoding credential is found at startup, before
\* any batch runs: no batch runs without both credentials, and no lookup made
\* for a file fails because its credential is missing.
CredentialCheckedAtStartup ==
    /\ batchNo >= 1 => OPENWEATHER_API_KEY /\ GOOGLE_MAPS_API_KEY
    /\ \A p \in Events :
          trace[p].op \in {"weather", "geocode"} => trace[p].out # "throw"

\* C22: the weather and geocoding lookups do not depend on each other: right
\* after a weather lookup that succeeded or met a provider error, and right
\* after the location parse of a file with coordinates and no timestamp (no
\* weather lookup is made), the geocoding lookup of the file is the next
\* call; the row's geo_data is set exactly when the geocoding lookup gave a
\* result and its weather_data exactly when the weather lookup gave one.
LookupsIndependent ==
    /\ trace # <<>> =>
          LET last == trace[Len(trace)]
          IN  /\ (last.op = "weather" /\ last.out \in {"ok", "error"}) => pc = "geocode"
              /\ (last.op = "locate" /\ run.gpsCoordinates # NullCoords
                    /\ run.dateTime = NullDate) => pc = "geocode"
              /\ last.op = "geocode" =>
                    \E p \in Events : SameFile(p, Len(trace)) /\ trace[p].op = "locate"
    /\ \A q \in Events : Is(q, "insert", "ok") =>
          LET row == photos[RowsUpTo(q)]
              gave(op) == \E p \in 1..q : SameFile(p, q) /\ Is(p, op, "ok")
          IN  /\ row.geo_data # NullData <=> gave("geocode")
              /\ row.weather_data # NullData <=> gave("weather")

\* One row with weather data and no geo data, and one of a photo without a
\* timestamp with geo data and no weather lookup.
EachLookupWithoutTheOther ==
    /\ Len(photos) = 2
    /\ run.files = <<"PhotoFull", "PhotoNoTime">>
    /\ photos[1].weather_data # NullData
    /\ photos[1].geo_data = NullData
    /\ photos[2].weather_data = NullData
    /\ photos[2].geo_data # NullData
    /\ \A p \in Events : trace[p].idx = 1 => trace[p].op # "weather"

\* The batch completed: every file persisted, the final status, the redirect.
Completed ==
    /\ pc = "done"
    /\ Len(photos) = Len(run.files)
    /\ uploadStatus = Status("Upload complete!", 0, 0)
    /\ error = NoError

\* The batch ended in the error state: the banner set, loading cleared, and
\* the last call is the one that failed.
Failed ==
    /\ pc = "idle"
    /\ batchNo >= 1
    /\ error # NoError
    /\ ~isLoading
    /\ trace[Len(trace)].out \in {"error", "throw"}

\* C23: every started batch eventually ends, either completed (all n rows,
\* 'Upload complete!', redirect) or in the error state (banner set, loading
\* cleared), never both; until then it is loading and running, and the
\* redirect happens only with all n files persisted.
BatchTerminates ==
    /\ (batchNo >= 1) ~> (Completed \/ Failed)
    /\ [](batchNo >= 1 =>
            /\ ~(Completed /\ Failed)
            /\ pc = "done" => Completed
            /\ pc = "idle" => Failed
            /\ pc \notin {"done", "idle"} => isLoading /\ error = NoError)

\* The batch ended in the error state after its first file was persisted.
EndedInErrorAfterOneRow ==
    /\ Failed
    /\ Len(photos) = 1
    /\ Len(run.files) = 2
    /\ error = MsgMissingMapsKey

\* The events of batch b, the successful uploads and inserts among them, and
\* the last call the batch made.
EventsOf(b) == {p \in Events : trace[p].batch = b}

UploadedBy(b) == Cardinality({p \in EventsOf(b) : Is(p, "upload", "ok")})

InsertedBy(b) == Cardinality({p \in EventsOf(b) : Is(p, "insert", "ok")})

LastOf(b) == CHOOSE p \in EventsOf(b) : \A q \in EventsOf(b) : q <= p

\* The row of every successful insert carries the path of the object that an
\* earlier successful upload of the same batch stored for the same file.
RowsPointAtEarlierUploads ==
    \A p \in Events : Is(p, "insert", "ok") =>
        LET path == photos[RowsUpTo(p)].storage_path
            q == path.time + 1
        IN  /\ q < p
            /\ Is(q, "upload", "ok")
            /\ SameFile(p, q)
            /\ path.index = trace[p].idx
            /\ \E k \in 1..Len(storage) :
                  /\ storage[k].path = path
                  /\ storage[k].file = run.files[trace[p].idx + 1]

\* C24 as stated: every row's storage_path is the path of an object uploaded
\* earlier for the same file, a batch's uploaded objects outnumber its rows by
\* at most one, and by one exactly when the insert of the current file failed.
SurplusOnlyAfterFailedInsert ==
    /\ RowsPointAtEarlierUploads
    /\ \A b \in 1..batchNo :
          /\ UploadedBy(b) - InsertedBy(b) \in {0, 1}
          /\ UploadedBy(b) - InsertedBy(b) = 1
                <=> (EventsOf(b) # {} /\ Is(LastOf(b), "insert", "error"))

\* C24: every row's storage_path is the path of an object uploaded earlier
\* for the same file, a batch's uploaded objects outnumber its rows by at most
\* one, and by one exactly while the object of the current file has no row:
\* its insert is still awaited, was refused, or was never sent because
\* building the row threw.
SurplusWhileCurrentFileHasNoRow ==
    /\ RowsPointAtEarlierUploads
    /\ \A b \in 1..batchNo :
          /\ UploadedBy(b) - InsertedBy(b) \in {0, 1}
          /\ Len(storage) - Len(photos) = UploadedBy(b) - InsertedBy(b)
          /\ UploadedBy(b) - InsertedBy(b) = 1
                <=> /\ EventsOf(b) # {}
                    /\ \/ Is(LastOf(b), "upload", "ok") /\ pc = "insert"
                       \/ Is(LastOf(b), "insert", "error") /\ pc = "idle"
                       \/ Is(LastOf(b), "insert", "throw") /\ pc = "idle"

ObjectLeftWithoutRow ==
    /\ Len(photos) = 1
    /\ Len(storage) = 2
    /\ Is(Len(trace), "insert", "error")
    /\ storage[2].path \notin {photos[r].storage_path : r \in 1..Len(photos)}

\* A decimal coordinate that is present, is not NaN and is not zero.
UsableDecimal(v) == v.k \notin {"undefined", "null", "nan"} /\ v # Num(0)

\* C25: extractGPSCoordinates gives {lat, lon}, the two decimals, if and only
\* if both decimals are present, not NaN and non-zero, and null otherwise; no
\* weather and no geocoding lookup is made for a file one of whose decimals is
\* missing, NaN or exactly 0.
ZeroCoordinateIsNoGps ==
    /\ (\E p \in Events : trace[p].op = "extract" /\ trace[p].idx = run.i
                            /\ trace[p].out = "ok") =>
          LET gps == run.exifData
              usable == UsableDecimal(gps.latitudeDecimal) /\ UsableDecimal(gps.longitudeDecimal)
          IN  /\ usable <=> run.gpsCoordinates.k = "coords"
              /\ usable => /\ run.gpsCoordinates.lat = gps.latitudeDecimal
                           /\ run.gpsCoordinates.lon = gps.longitudeDecimal
              /\ ~usable => run.gpsCoordinates = NullCoords
    /\ \A p \in Events : trace[p].op \in {"weather", "geocode"} =>
          LET gps == Metadata[run.files[trace[p].idx + 1]].exifData
          IN  UsableDecimal(gps.latitudeDecimal) /\ UsableDecimal(gps.longitudeDecimal)

\* A photo taken on the equator persisted without a lookup.
EquatorPhotoPersistedWithoutLookups ==
    /\ run.files = <<"PhotoEquator">>
    /\ run.exifData.latitudeDecimal = Num(0)
    /\ UsableDecimal(run.exifData.longitudeDecimal)
    /\ Len(photos) = 1
    /\ photos[1].exif_data = run.exifData
    /\ \A p \in Events : trace[p].op \notin {"weather", "geocode"}

\* The first call batch b made.
FirstOf(b) == CHOOSE p \in EventsOf(b) : \A q \in EventsOf(b) : p <= q

\* The file behind the row of the successful insert p: the file of the object
\* its storage_path names.
FileOfRow(p) ==
    LET path == photos[RowsUpTo(p)].storage_path
    IN  (CHOOSE k \in 1..Len(storage) : storage[k].path = path)

\* C26: the step that ends a batch in error leaves the selection and its
\* previews as they were; every submit starts at file index 0 and every batch
\* inserts files 0..i-1 before it makes a call for file i, whatever earlier
\* batches persisted; every successful insert of every batch keeps its own
\* row, and rows have distinct storage paths: a file persisted by a failed
\* batch gets a second row when the selection is submitted again.
ResubmitStartsOver ==
    /\ [][/\ (isLoading /\ ~isLoading') => (files' = files /\ previews' = previews)
          /\ batchNo' # batchNo => run'.i = 0]_vars
    /\ [](/\ \A b \in 1..batchNo : EventsOf(b) # {} => trace[FirstOf(b)].idx = 0
          /\ \A p \in Events : trace[p].op = "extract" => InsertedBefore(p)
          /\ RowsKept
          /\ \A r1, r2 \in 1..Len(photos) :
                r1 # r2 => photos[r1].storage_path # photos[r2].storage_path)

\* The first batch persisted file 0 and failed at file 1; the same selection
\* was submitted again and file 0 has two rows with two storage paths.
SameFileTwoRows ==
    /\ batchNo = 2
    /\ files = <<"PhotoNoExif", "PhotoEquator">>
    /\ run.files = files
    /\ Len(photos) = 2
    /\ \E p, q, f \in Events :
          /\ trace[p].batch = 1 /\ Is(p, "insert", "ok") /\ trace[p].idx = 0
          /\ trace[f].batch = 1 /\ trace[f].idx = 1 /\ trace[f].out = "error"
          /\ trace[q].batch = 2 /\ Is(q, "insert", "ok") /\ trace[q].idx = 0
          /\ storage[FileOfRow(p)].file = "PhotoNoExif"
          /\ storage[FileOfRow(q)].file = "PhotoNoExif"
          /\ FileOfRow(p) # FileOfRow(q)
    /\ photos[1].storage_path # photos[2].storage_path

\* C27: at most one batch is in flight: a batch starts only from the idle,
\* not loading page and sets the loading flag; the flag is cleared only by a
\* step that sets the error, and stays set while the batch runs and after it
\* completed; while it is set neither handleSubmit nor removeFile can run.
OneBatchInFlight ==
    /\ [][/\ batchNo' # batchNo =>
                (~isLoading /\ pc = "idle" /\ isLoading' /\ batchNo' = batchNo + 1)
          /\ (isLoading /\ ~isLoading') => (error' # NoError /\ pc' = "idle")
          /\ (isLoading /\ isLoading') => (run'.files = run.files /\ batchNo' = batchNo)]_vars
    /\ [](/\ isLoading <=> pc # "idle"
          /\ pc = "done" => (isLoading /\ Len(photos) >= Len(run.files))
          /\ isLoading =>
                /\ ~ENABLED handleSubmit
                /\ \A index \in 1..MaxFiles : ~ENABLED removeFile(index))

\* The second batch of the stay is running with a selection and a project on
\* the page: only the loading flag keeps the two controls off.
SecondBatchRunning ==
    /\ batchNo = 2
    /\ pc = "upload"
    /\ isLoading
    /\ files # <<>>
    /\ projectId # ""

\* C28: the running batch works on the files, project id, description and
\* location description of the page at the moment of the submit: the submit
\* copies them, no later step (a drop that replaces the selection included)
\* changes the copy, every object and row of the batch is that of the copied
\* file at its index with the copied project and texts, in the order of the
\* copy, and the progress and the status count against the length of the copy.
BatchUsesSubmittedSelection ==
    /\ [][/\ batchNo' # batchNo =>
                /\ run'.files = files
                /\ run'.projectId = projectId
                /\ run'.description = description
                /\ run'.locationDescription = locationDescription
          /\ batchNo' = batchNo =>
                /\ run'.files = run.files
                /\ run'.projectId = run.projectId
                /\ run'.description = run.description
                /\ run'.locationDescription = run.locationDescription]_vars
    /\ [](/\ \A p \in EventsOf(batchNo) :
                /\ trace[p].idx < Len(run.files)
                /\ trace[p].op = "extract" => InsertedBefore(p)
                /\ Is(p, "insert", "ok") =>
                      LET row == photos[RowsUpTo(p)]
                          file == run.files[trace[p].idx + 1]
                      IN  /\ storage[FileOfRow(p)].file = file
                          /\ row.storage_path.project = run.projectId
                          /\ row.storage_path.index = trace[p].idx
                          /\ row.project_id = run.projectId
                          /\ row.description = run.description
                          /\ row.location_description = run.locationDescription
                          /\ row.exif_data = Metadata[file].exifData
          /\ isLoading =>
                /\ uploadProgress = <<0, 1>> \/ uploadProgress[2] = Len(run.files)
                /\ uploadStatus.text # "Upload complete!" => uploadStatus.n = Len(run.files)
          /\ pc = "done" => InsertedBy(batchNo) = Len(run.files))

\* The selection was replaced by a drop while the batch ran, and the batch
\* completed with the two files it was submitted with.
SelectionReplacedMidBatch ==
    /\ pc = "done"
    /\ batchNo = 1
    /\ run.files = <<"PhotoNoExif", "PhotoEquator">>
    /\ files = <<"PhotoEquator">>
    /\ Len(photos) = 2
    /\ storage[1].file = "PhotoNoExif"
    /\ storage[2].file = "PhotoEquator"
    /\ uploadProgress = <<200, 2>>
    /\ run.locationDescription = LocationText
    /\ photos[2].location_description = LocationText

\* The previews of a list of files, and a list with entry k taken out.
PreviewsOf(list) == [k \in 1..Len(list) |-> ObjectURL(list[k])]

Without(list, k) == [j \in 1..(Len(list) - 1) |-> IF j < k THEN list[j] ELSE list[j + 1]]

\* C29: the previews and the files have the same length and preview k is the
\* preview of file k; onDrop of a list holding a non-image sets the error and
\* leaves files and previews as they are; onDrop of images only makes the
\* dropped list the selection, with its previews, and clears the error;
\* removeFile(k) takes entry k, and nothing else, out of both lists.
SelectionAndPreviewsAligned ==
    /\ previews = PreviewsOf(files)
    /\ \A list \in HandedLists :
          LET images == \A k \in 1..Len(list) : IsImage(list[k])
              asClaimed ==
                  IF images
                  THEN files' = list /\ previews' = PreviewsOf(list) /\ error' = NoError
                  ELSE files' = files /\ previews' = previews /\ error' = MsgOnlyImages
          IN  /\ ENABLED (onDrop(list) /\ fileRejections' = <<>>)
              /\ ~ENABLED (onDrop(list) /\ fileRejections' = <<>> /\ ~asClaimed)
    /\ \A k \in 1..Len(files) :
          /\ ENABLED removeFile(k)
          /\ ~ENABLED (removeFile(k) /\ ~(/\ files' = Without(files, k)
                                         /\ previews' = Without(previews, k)
                                         /\ error' = error))

\* Two photos are selected, from a drop or after a removal, with a refused
\* drop's error showing.
TwoSelectedAfterRefusedDrop ==
    /\ Len(files) = 2
    /\ files[1] # files[2]
    /\ previews = <<ObjectURL(files[1]), ObjectURL(files[2])>>
    /\ error = MsgOnlyImages

\* C30: handleSubmit on an empty selection, or with no project chosen, sets
\* the error message and changes nothing else: no call is made (the trace,
\* the bucket and the table stay as they are), no batch starts, and the
\* loading flag, the progress and the status keep their values.
InvalidSubmitOnlySetsError ==
    (Mounted /\ pc = "idle" /\ ~isLoading /\ (files = <<>> \/ projectId = "")) =>
        /\ ENABLED handleSubmit
        /\ ~ENABLED (handleSubmit /\
                       ~(/\ error' = IF files = <<>> THEN MsgSelectPhoto ELSE MsgSelectProject
                         /\ isLoading' = isLoading
                         /\ uploadProgress' = uploadProgress
                         /\ uploadStatus' = uploadStatus
                         /\ batchNo' = batchNo
                         /\ pc' = pc
                         /\ run' = run
                         /\ trace' = trace
                         /\ storage' = storage
                         /\ photos' = photos
                         /\ UNCHANGED uiVars))

\* After a batch that persisted one file and failed at the second, the files
\* were removed and the submit of the empty selection was refused: the
\* message shows and the progress, the status, the bucket and the table are
\* those the failed batch left.
EmptySubmitRefusedAfterFailedBatch ==
    /\ files = <<>>
    /\ projectId # ""
    /\ error = MsgSelectPhoto
    /\ ~isLoading
    /\ pc = "idle"
    /\ batchNo = 1
    /\ uploadProgress = <<100, 2>>
    /\ uploadStatus.text = "Uploading file"
    /\ Len(photos) = 1
    /\ Len(storage) = 1

====
